---------------------------- MODULE Spec2Model ----------------------------
(***************************************************************************)
(* Tolerant CSV ingestion of app_2visma.py: safe_float_parse,              *)
(* find_header_row and the three parsers parse_stock_visma,                *)
(* parse_eco_visma and parse_fuel_log.                                     *)
(*                                                                         *)
(* Text is a sequence of one-character strings.  A raw line is the list of *)
(* its comma-separated raw fields (unquoted, untrimmed).  A float is an    *)
(* exact decimal m * 10^-s or one of nan, +inf, -inf; rounding of binary   *)
(* floating point is not modelled.                                         *)
(***************************************************************************)
EXTENDS Integers, Sequences, FiniteSets, TLC

(***************************************************************************)
(* Bounds of the model.                                                    *)
(***************************************************************************)
\* the explicit lines of an input file (after its leading filler lines)
MaxLines == 3

\* the explicit lines of an input file that has leading filler lines
MaxPaddedLines == 1

\* the lines of an input file of the header-location runs
MaxHeaderLines == 2

\* the parser calls of one session
MaxCalls == 3

\* the explicit lines of an input file of the scan-window runs
MaxWindowLines == 2

\* the lines of an input file of the directive runs
MaxSetupLines == 3

\* the widget events of one session of the application
MaxEvents == 2

\* the characters of a generated argument of safe_float_parse
MaxChars == 3

(***************************************************************************)
(* Text.                                                                   *)
(***************************************************************************)
\* a missing value (None, NaN): what pd.isna() tells from text
NA == <<"<NA>">>

IsNA(v) ==
    v = NA

\* str(value): the text of a missing value is 'nan'
PyStr(v) ==
    IF IsNA(v) THEN <<"n","a","n">> ELSE v

Whitespace ==
    {" ", "\t", "\r"}

RECURSIVE LStrip(_)
LStrip(s) ==
    IF s # <<>> /\ Head(s) \in Whitespace THEN LStrip(Tail(s)) ELSE s

RECURSIVE RStrip(_)
RStrip(s) ==
    IF s # <<>> /\ s[Len(s)] \in Whitespace
    THEN RStrip(SubSeq(s, 1, Len(s) - 1))
    ELSE s

\* str.strip()
Strip(s) ==
    RStrip(LStrip(s))

Has(s, c) ==
    \E i \in 1..Len(s) : s[i] = c

\* str.rfind(c): 0-based offset of the last c, -1 when there is none
RFind(s, c) ==
    IF Has(s, c)
    THEN (CHOOSE i \in 1..Len(s) :
              s[i] = c /\ \A j \in (i + 1)..Len(s) : s[j] # c) - 1
    ELSE -1

\* str.replace(c, '')
RECURSIVE Remove(_, _)
Remove(s, c) ==
    IF s = <<>> THEN <<>>
    ELSE IF Head(s) = c THEN Remove(Tail(s), c)
    ELSE <<Head(s)>> \o Remove(Tail(s), c)

\* str.replace(c, d) for single characters
Replace(s, c, d) ==
    [i \in 1..Len(s) |-> IF s[i] = c THEN d ELSE s[i]]

LowerChars ==
    <<"a","b","c","d","e","f","g","h","i","j","k","l","m","n","o","p","q","r","s","t","u","v","w","x","y","z">>

UpperChars ==
    <<"A","B","C","D","E","F","G","H","I","J","K","L","M","N","O","P","Q","R","S","T","U","V","W","X","Y","Z">>

UpperChar(c) ==
    IF \E i \in 1..26 : LowerChars[i] = c
    THEN UpperChars[CHOOSE i \in 1..26 : LowerChars[i] = c]
    ELSE c

LowerChar(c) ==
    IF \E i \in 1..26 : UpperChars[i] = c
    THEN LowerChars[CHOOSE i \in 1..26 : UpperChars[i] = c]
    ELSE c

\* str.upper()
Upper(s) ==
    [i \in 1..Len(s) |-> UpperChar(s[i])]

Lower(s) ==
    [i \in 1..Len(s) |-> LowerChar(s[i])]

BOM == "<BOM>"

\* a byte that is no part of a valid UTF-8 sequence, and U+FFFD
InvalidByte == "<FF>"

ReplacementChar == "<FFFD>"

DecodeText_Ignore(s) ==
    Remove(s, InvalidByte)

\* bytes.decode("utf-8", errors='replace') on one field
DecodeText(s) ==
    [k \in 1..Len(s) |-> IF s[k] = InvalidByte THEN ReplacementChar ELSE s[k]]

\* the same on the lines of a file
Decode(lines) ==
    [i \in 1..Len(lines) |->
        [k \in 1..Len(lines[i]) |-> DecodeText(lines[i][k])]]

(***************************************************************************)
(* Floats.                                                                 *)
(***************************************************************************)
Fin(m, s) ==
    [k |-> "fin", m |-> m, s |-> s]

NaN ==
    [k |-> "nan", m |-> 0, s |-> 0]

PInf ==
    [k |-> "pinf", m |-> 0, s |-> 0]

NInf ==
    [k |-> "ninf", m |-> 0, s |-> 0]

Zero ==
    Fin(0, 0)

\* the canonical form of m * 10^-s: no trailing decimal zero
RECURSIVE Norm(_, _)
Norm(m, s) ==
    IF m = 0 THEN Zero
    ELSE IF s > 0 /\ m % 10 = 0 THEN Norm(m \div 10, s - 1)
    ELSE Fin(m, s)

RECURSIVE Pow10(_)
Pow10(n) ==
    IF n = 0 THEN 1 ELSE 10 * Pow10(n - 1)

Sign(a) ==
    CASE a.k = "pinf" -> 1
      [] a.k = "ninf" -> -1
      [] a.k = "nan" -> 0
      [] OTHER -> IF a.m > 0 THEN 1 ELSE IF a.m < 0 THEN -1 ELSE 0

\* float multiplication
Mul(a, b) ==
    IF a.k = "nan" \/ b.k = "nan" THEN NaN
    ELSE IF a.k = "fin" /\ b.k = "fin" THEN Norm(a.m * b.m, a.s + b.s)
    ELSE IF Sign(a) * Sign(b) = 0 THEN NaN
    ELSE IF Sign(a) * Sign(b) > 0 THEN PInf
    ELSE NInf

\* float addition
Add(a, b) ==
    IF a.k = "nan" \/ b.k = "nan" THEN NaN
    ELSE IF a.k = "fin" /\ b.k = "fin"
    THEN IF a.s >= b.s
         THEN Norm(a.m + b.m * Pow10(a.s - b.s), a.s)
         ELSE Norm(a.m * Pow10(b.s - a.s) + b.m, b.s)
    ELSE IF a.k = "fin" THEN b
    ELSE IF b.k = "fin" THEN a
    ELSE IF a.k = b.k THEN a
    ELSE NaN

\* Series.fillna(0.0) on one value
FillNa0(a) ==
    IF a.k = "nan" THEN Zero ELSE a

Digits ==
    <<"0","1","2","3","4","5","6","7","8","9">>

IsDigit(c) ==
    \E i \in 1..10 : Digits[i] = c

DigitVal(c) ==
    (CHOOSE i \in 1..10 : Digits[i] = c) - 1

RECURSIVE DigitsValue(_)
DigitsValue(s) ==
    IF s = <<>> THEN 0
    ELSE 10 * DigitsValue(SubSeq(s, 1, Len(s) - 1)) + DigitVal(s[Len(s)])

\* float(s) for text without surrounding whitespace: an optional sign, then
\* nan, inf or infinity in any letter case, or digits with at most one point
\* and an optional exponent (e or E, an optional sign, digits).
\* ok = FALSE stands for ValueError.  Digit-group underscores and exponents
\* beyond the range of a double are outside the texts the model feeds it.
\* the place of the first e or E of body, Len(body) + 1 when it has none
ExponentAt(body) ==
    LET es == {i \in 1..Len(body) : body[i] \in {"e", "E"}}
    IN  IF es = {} THEN Len(body) + 1
        ELSE CHOOSE i \in es : \A j \in es : i <= j
\* the place of the first point of mant, Len(mant) + 1 when it has none
PointAt(mant) ==
    LET dots == {i \in 1..Len(mant) : mant[i] = "."}
    IN  IF dots = {} THEN Len(mant) + 1
        ELSE CHOOSE i \in dots : \A j \in dots : i <= j
\* float() of decimal text: ndots points in the mantissa, ip before the point
\* and fp after it, and with has_e the exponent digits edigits, negative with
\* eneg
PyFloatValue(neg, ndots, ip, fp, has_e, eneg, edigits) ==
    IF /\ ndots <= 1
       /\ Len(ip) + Len(fp) >= 1
       /\ \A i \in 1..Len(ip) : IsDigit(ip[i])
       /\ \A i \in 1..Len(fp) : IsDigit(fp[i])
       /\ ~has_e \/ (edigits # <<>> /\ \A i \in 1..Len(edigits) : IsDigit(edigits[i]))
    THEN LET x == IF eneg THEN 0 - DigitsValue(edigits) ELSE DigitsValue(edigits)
             mag == DigitsValue(ip \o fp)
             m == IF neg THEN 0 - mag ELSE mag
         IN  [ok |-> TRUE,
              val |-> IF x >= Len(fp)
                      THEN Norm(m * Pow10(x - Len(fp)), 0)
                      ELSE Norm(m, Len(fp) - x)]
    ELSE [ok |-> FALSE, val |-> Zero]
\* float() of the mantissa mant and, with has_e, the exponent text expo
PyFloatDecimal(neg, mant, has_e, expo) ==
    PyFloatValue(neg,
                 Cardinality({i \in 1..Len(mant) : mant[i] = "."}),
                 SubSeq(mant, 1, PointAt(mant) - 1),
                 SubSeq(mant, PointAt(mant) + 1, Len(mant)),
                 has_e,
                 expo # <<>> /\ Head(expo) = "-",
                 IF expo # <<>> /\ Head(expo) \in {"+", "-"} THEN Tail(expo) ELSE expo)
\* float() of the text after its sign
PyFloatUnsigned(neg, body) ==
    IF Lower(body) = <<"n","a","n">> THEN [ok |-> TRUE, val |-> NaN]
    ELSE IF Lower(body) \in {<<"i","n","f">>, <<"i","n","f","i","n","i","t","y">>}
    THEN [ok |-> TRUE, val |-> IF neg THEN NInf ELSE PInf]
    ELSE PyFloatDecimal(neg,
                        SubSeq(body, 1, ExponentAt(body) - 1),
                        ExponentAt(body) <= Len(body),
                        SubSeq(body, ExponentAt(body) + 1, Len(body)))
PyFloat(s) ==
    PyFloatUnsigned(s # <<>> /\ Head(s) = "-",
                    IF s # <<>> /\ Head(s) \in {"+", "-"} THEN Tail(s) ELSE s)
\* the decimal digits of a natural number
RECURSIVE DigitsOf(_)
DigitsOf(n) ==
    IF n < 10 THEN <<Digits[n + 1]>>
    ELSE DigitsOf(n \div 10) \o <<Digits[(n % 10) + 1]>>

RECURSIVE DropTrailingZeros(_)
DropTrailingZeros(d) ==
    IF Len(d) > 1 /\ d[Len(d)] = "0"
    THEN DropTrailingZeros(SubSeq(d, 1, Len(d) - 1))
    ELSE d

\* str(x) of a float: repr, the shortest text that reads back as x; fixed
\* notation while the decimal exponent is in -4..15, else d.ddde-XX
FloatStr(a) ==
    IF a.k = "nan" THEN <<"n","a","n">>
    ELSE IF a.k = "pinf" THEN <<"i","n","f">>
    ELSE IF a.k = "ninf" THEN <<"-">> \o <<"i","n","f">>
    ELSE LET mag == IF a.m < 0 THEN 0 - a.m ELSE a.m
             d == DigitsOf(mag)
             n == Len(d)
             sign == IF a.m < 0 THEN <<"-">> ELSE <<>>
             E == n - 1 - a.s
             sd == DropTrailingZeros(d)
             ex == DigitsOf(IF E < 0 THEN 0 - E ELSE E)
         IN  IF mag = 0 THEN <<"0", ".", "0">>
             ELSE IF E >= -4 /\ E < 16
             THEN IF a.s = 0 THEN sign \o d \o <<".", "0">>
                  ELSE IF n > a.s
                  THEN sign \o SubSeq(d, 1, n - a.s) \o <<".">> \o SubSeq(d, n - a.s + 1, n)
                  ELSE sign \o <<"0", ".">> \o [i \in 1..(a.s - n) |-> "0"] \o d
             ELSE sign \o <<sd[1]>>
                  \o (IF Len(sd) > 1 THEN <<".">> \o Tail(sd) ELSE <<>>)
                  \o <<"e", IF E < 0 THEN "-" ELSE "+">>
                  \o (IF Len(ex) < 2 THEN <<"0">> ELSE <<>>) \o ex

Sentinels ==
    {<<>>, <<"-">>, <<".">>, <<"$">>, <<"n","a","n">>, <<"#","N","/","A">>, <<"N","/","A">>, <<"#","V","A","L","U","E","!">>,
     <<"N","o","n","e">>}

\* a faulty DecimalSeparators: with both separators the comma is always the
\* thousands separator
DecimalSeparators_DotOnly(s) ==
    IF Has(s, ",") /\ Has(s, ".") THEN Remove(s, ",")
    ELSE IF Has(s, ",") THEN Replace(s, ",", ".")
    ELSE s

\* a faulty DecimalSeparators: the point is always the thousands separator
DecimalSeparators_CommaLocale(s) ==
    Replace(Remove(s, "."), ",", ".")

\* the decimal-separator rule of safe_float_parse on cleaned text
DecimalSeparators(s) ==
    IF Has(s, ",") /\ Has(s, ".")
    THEN IF RFind(s, ",") > RFind(s, ".")
         THEN Replace(Remove(s, "."), ",", ".")
         ELSE Remove(s, ",")
    ELSE IF Has(s, ",") THEN Replace(s, ",", ".")
    ELSE s

\* a faulty safe_float_parse: text that float() rejects gives nan
safe_float_parse_NanOnError(value_str) ==
    IF IsNA(value_str) \/ Strip(PyStr(value_str)) \in Sentinels THEN Zero
    ELSE LET s == DecimalSeparators(Remove(Remove(Strip(PyStr(value_str)), "$"), " "))
         IN  IF s = <<>> \/ s \in {<<"+">>, <<"-">>} THEN Zero
             ELSE IF PyFloat(s).ok THEN PyFloat(s).val
             ELSE NaN

\* str(value_str).strip().replace('$', '').replace(' ', '')
BasicCleaning(value_str) ==
    Remove(Remove(Strip(PyStr(value_str)), "$"), " ")

safe_float_parse(value_str) ==
    IF IsNA(value_str) \/ Strip(PyStr(value_str)) \in Sentinels THEN Zero
    ELSE LET cleaned == BasicCleaning(value_str)
             s == DecimalSeparators(cleaned)
         IN  IF s = <<>> \/ s \in {<<"+">>, <<"-">>} THEN Zero
             ELSE IF PyFloat(s).ok THEN PyFloat(s).val
             ELSE Zero

(***************************************************************************)
(* Lines and header location.                                              *)
(***************************************************************************)
\* line.strip() on the raw fields: only the outer ends of the line are trimmed
StripLine(f) ==
    IF f = <<>> THEN <<>>
    ELSE LET g == [f EXCEPT ![1] = LStrip(f[1])]
         IN  [g EXCEPT ![Len(g)] = RStrip(g[Len(g)])]

\* `if not line_strip: continue`
IsBlank(line) ==
    StripLine(line) \in {<<>>, << <<>> >>}

\* next(csv.reader(io.StringIO(line_strip), delimiter=','))
CsvFields(line) ==
    StripLine(line)

\* csv.Error: a carriage return inside the trimmed line ("new-line character
\* seen in unquoted field")
IsBad(line) ==
    \E k \in 1..Len(StripLine(line)) : Has(StripLine(line)[k], "\r")

ColNames ==
    {"Codigo", "Producto", "Categoria", "CantidadActual", "CostoUnitario",
     "Ubicacion", "STOCK_MINIMO", "Invierno", "Verano", "Fecha", "Equipo",
     "CodigoCombustible", "LtsIngreso", "LtsEgreso", "HsKm", "Comentarios",
     "CostoUnitarioLt"}

\* the characters of a header name
HeaderText(name) ==
    CASE name = "Codigo" -> <<"C","o","d","i","g","o">>
      [] name = "Producto" -> <<"P","r","o","d","u","c","t","o">>
      [] name = "Categoria" -> <<"C","a","t","e","g","o","r","i","a">>
      [] name = "CantidadActual" -> <<"C","a","n","t","i","d","a","d","A","c","t","u","a","l">>
      [] name = "CostoUnitario" -> <<"C","o","s","t","o","U","n","i","t","a","r","i","o">>
      [] name = "Ubicacion" -> <<"U","b","i","c","a","c","i","o","n">>
      [] name = "STOCK_MINIMO" -> <<"S","T","O","C","K","_","M","I","N","I","M","O">>
      [] name = "Invierno" -> <<"I","n","v","i","e","r","n","o">>
      [] name = "Verano" -> <<"V","e","r","a","n","o">>
      [] name = "Fecha" -> <<"F","e","c","h","a">>
      [] name = "Equipo" -> <<"E","q","u","i","p","o">>
      [] name = "CodigoCombustible" -> <<"C","o","d","i","g","o","C","o","m","b","u","s","t","i","b","l","e">>
      [] name = "LtsIngreso" -> <<"L","t","s","I","n","g","r","e","s","o">>
      [] name = "LtsEgreso" -> <<"L","t","s","E","g","r","e","s","o">>
      [] name = "HsKm" -> <<"H","s","K","m">>
      [] name = "Comentarios" -> <<"C","o","m","e","n","t","a","r","i","o","s">>
      [] name = "CostoUnitarioLt" -> <<"C","o","s","t","o","U","n","i","t","a","r","i","o","L","t">>

HeaderTexts(names) ==
    [i \in 1..Len(names) |-> HeaderText(names[i])]

\* cleaned_fields of find_header_row: each field trimmed, then a leading
\* byte-order marker cut from the first one
CleanedFields(line) ==
    LET stripped == [i \in 1..Len(CsvFields(line)) |-> Strip(CsvFields(line)[i])]
    IN  IF stripped # <<>> /\ stripped[1] # <<>> /\ stripped[1][1] = BOM
        THEN [stripped EXCEPT ![1] = Tail(stripped[1])]
        ELSE stripped

NotFound ==
    [idx |-> -1, names |-> <<>>]

SearchRange == 50

Min(S) ==
    CHOOSE x \in S : \A y \in S : x <= y

\* `cleaned_fields == expected_headers_list` on a line that is not blank and
\* that csv.reader can read
HeaderMatches_IgnoreCase(line, expected_headers_list) ==
    /\ ~IsBlank(line)
    /\ ~IsBad(line)
    /\ [k \in 1..Len(CleanedFields(line)) |-> Lower(CleanedFields(line)[k])] =
           [k \in 1..Len(expected_headers_list) |->
               Lower(HeaderTexts(expected_headers_list)[k])]

HeaderMatches(line, expected_headers_list) ==
    /\ ~IsBlank(line)
    /\ ~IsBad(line)
    /\ CleanedFields(line) = HeaderTexts(expected_headers_list)

\* a faulty Window: every line of the file is visited
Window_WholeFile(content_lines, search_range) ==
    0..(Len(content_lines) - 1)

\* the 0-based offsets enumerate(content_lines[:search_range]) visits
Window(content_lines, search_range) ==
    0..((IF Len(content_lines) < search_range
         THEN Len(content_lines)
         ELSE search_range) - 1)

\* the first line of the window that matches, or (-1, None)
find_header_row(content_lines, expected_headers_list, search_range) ==
    LET hits == {i \in Window(content_lines, search_range) :
                    HeaderMatches(content_lines[i + 1], expected_headers_list)}
    IN  IF hits = {} THEN NotFound
        ELSE [idx |-> Min(hits), names |-> expected_headers_list]

(***************************************************************************)
(* Tables (pandas DataFrame): an ordered column list and rows that map     *)
(* each column to a value.  `line` is the 0-based offset of the file line  *)
(* the row was read from.                                                  *)
(***************************************************************************)
Range(s) ==
    {s[i] : i \in 1..Len(s)}

IndexOf(s, x) ==
    CHOOSE i \in 1..Len(s) : s[i] = x

\* a faulty EmptyFrame: pd.DataFrame() without the column list
EmptyFrame_NoColumns(cols) ==
    [cols |-> <<>>, rows |-> <<>>]

\* pd.DataFrame(columns=cols)
EmptyFrame(cols) ==
    [cols |-> cols, rows |-> <<>>]

\* pd.DataFrame(data_rows, columns=names)
DataFrame(data_rows, names) ==
    [cols |-> names,
     rows |-> [j \in 1..Len(data_rows) |->
                 [line |-> data_rows[j].line,
                  v |-> [c \in Range(names) |->
                           data_rows[j].fields[IndexOf(names, c)]]]]]

HasCol(df, c) ==
    c \in Range(df.cols)

\* df[c] = F(row) for every row; a new column goes last
SetCol(df, c, F(_)) ==
    [cols |-> IF HasCol(df, c) THEN df.cols ELSE Append(df.cols, c),
     rows |-> [j \in 1..Len(df.rows) |->
                 [line |-> df.rows[j].line,
                  v |-> [d \in Range(df.cols) \cup {c} |->
                           IF d = c THEN F(df.rows[j]) ELSE df.rows[j].v[d]]]]]

\* `if c not in df.columns: df[c] = default`
AddMissing(df, c, default) ==
    IF HasCol(df, c) THEN df ELSE SetCol(df, c, LAMBDA r : default)

\* `if c in df.columns: df[c] = F(row)`
ApplyIfPresent(df, c, F(_)) ==
    IF HasCol(df, c) THEN SetCol(df, c, F) ELSE df

\* [x for x in s if Keep(x)]
SelectSeq2(s, Keep(_)) ==
    LET F[i \in 0..Len(s)] ==
            IF i = 0 THEN <<>>
            ELSE IF Keep(s[i]) THEN Append(F[i - 1], s[i])
            ELSE F[i - 1]
    IN  F[Len(s)]

\* df[mask]
FilterRows(df, Keep(_)) ==
    [cols |-> df.cols, rows |-> SelectSeq2(df.rows, Keep)]

\* df.loc[:, [col for col in order if col in df.columns]]
SelectCols(df, order) ==
    LET kept == SelectSeq2(order, LAMBDA c : HasCol(df, c))
    IN  [cols |-> kept,
         rows |-> [j \in 1..Len(df.rows) |->
                     [line |-> df.rows[j].line,
                      v |-> [c \in Range(kept) |-> df.rows[j].v[c]]]]]

\* `for col in cols: df = Step(df, col)`
FoldCols(df, cols, Step(_, _)) ==
    LET F[i \in 0..Len(cols)] ==
            IF i = 0 THEN df ELSE Step(F[i - 1], cols[i])
    IN  F[Len(cols)]

(***************************************************************************)
(* parse_stock_visma.                                                      *)
(***************************************************************************)
expected_header_full ==
    <<"Codigo", "Producto", "Categoria", "CantidadActual", "CostoUnitario",
      "Ubicacion", "STOCK_MINIMO">>

expected_header_no_min ==
    <<"Codigo", "Producto", "Categoria", "CantidadActual", "CostoUnitario",
      "Ubicacion">>

final_cols_order_template ==
    <<"Codigo", "Producto", "Categoria", "CantidadActual", "CostoUnitario",
      "Valor Total Item", "Ubicacion", "STOCK_MINIMO">>

final_cols_order ==
    <<"Codigo", "Producto", "Categoria", "CantidadActual", "CostoUnitario",
      "Valor Total Item", "Ubicacion", "STOCK_MINIMO">>

\* a faulty StockFindHeader: each line is compared with both candidates and
\* the first line that matches either is returned
StockFindHeader_PerLine(content) ==
    LET hits == {i \in Window(content, SearchRange) :
                    \/ HeaderMatches(content[i + 1], expected_header_full)
                    \/ HeaderMatches(content[i + 1], expected_header_no_min)}
    IN  IF hits = {} THEN NotFound
        ELSE [idx |-> Min(hits),
              names |-> IF HeaderMatches(content[Min(hits) + 1], expected_header_full)
                        THEN expected_header_full
                        ELSE expected_header_no_min]

\* the full header first over the whole window, then the fallback
StockFindHeader(content) ==
    IF find_header_row(content, expected_header_full, SearchRange).idx # -1
    THEN find_header_row(content, expected_header_full, SearchRange)
    ELSE find_header_row(content, expected_header_no_min, SearchRange)

\* a faulty PadOrCut: a long row keeps its last fields
PadOrCut_KeepLast(fields, expected_field_count) ==
    IF Len(fields) < expected_field_count
    THEN fields \o [k \in 1..(expected_field_count - Len(fields)) |-> <<>>]
    ELSE SubSeq(fields, Len(fields) - expected_field_count + 1, Len(fields))

\* short rows are padded with '' and long rows cut to the header's length
PadOrCut(fields, expected_field_count) ==
    IF Len(fields) < expected_field_count
    THEN fields \o [k \in 1..(expected_field_count - Len(fields)) |-> <<>>]
    ELSE SubSeq(fields, 1, expected_field_count)

\* the data_rows loop of parse_stock_visma from 0-based offset i on
RECURSIVE StockDataRows(_, _, _)
StockDataRows(content, i, expected_field_count) ==
    IF i >= Len(content) THEN <<>>
    ELSE LET line == content[i + 1]
             rest == StockDataRows(content, i + 1, expected_field_count)
         IN  IF IsBlank(line) \/ IsBad(line) THEN rest
             ELSE <<[line |-> i,
                     fields |-> PadOrCut(CsvFields(line), expected_field_count)]>>
                  \o rest

StockStringCols ==
    <<"Codigo", "Producto", "Categoria", "Ubicacion">>

StockNumericCols ==
    <<"CantidadActual", "CostoUnitario">>

\* `.astype(str).str.strip().fillna('')` on one column
StripCol(df, c) ==
    ApplyIfPresent(df, c, LAMBDA r : Strip(PyStr(r.v[c])))

\* `.apply(safe_float_parse)` on one column
ParseCol(df, c) ==
    ApplyIfPresent(df, c, LAMBDA r : safe_float_parse(r.v[c]))

AddEmptyText(df, c) ==
    AddMissing(df, c, <<>>)

AddZero(df, c) ==
    AddMissing(df, c, Zero)

\* a faulty StockMinimo: the column is added as missing, not as 0.0
StockMinimo_Missing(df) ==
    IF HasCol(df, "STOCK_MINIMO")
    THEN ParseCol(df, "STOCK_MINIMO")
    ELSE SetCol(df, "STOCK_MINIMO", LAMBDA r : NaN)

\* STOCK_MINIMO: parsed when the header had it, else added as 0.0
StockMinimo(df) ==
    IF HasCol(df, "STOCK_MINIMO")
    THEN ParseCol(df, "STOCK_MINIMO")
    ELSE SetCol(df, "STOCK_MINIMO", LAMBDA r : Zero)

\* data cleaning and type conversion
StockNormalize(df) ==
    LET strings == FoldCols(FoldCols(df, StockStringCols, StripCol),
                            StockStringCols, AddEmptyText)
        numbers == FoldCols(strings, StockNumericCols, ParseCol)
    IN  FoldCols(StockMinimo(numbers), StockNumericCols, AddZero)

\* df['Valor Total Item'] = CantidadActual.fillna(0.0) * CostoUnitario.fillna(0.0)
StockDerive(df) ==
    SetCol(df, "Valor Total Item",
           LAMBDA r : Mul(FillNa0(r.v["CantidadActual"]),
                          FillNa0(r.v["CostoUnitario"])))

StockFinalDefault(df, col) ==
    IF col \in {"CantidadActual", "CostoUnitario", "Valor Total Item",
                "STOCK_MINIMO"}
    THEN AddMissing(df, col, Zero)
    ELSE AddMissing(df, col, <<>>)

\* a faulty StockFilter: only Codigo is required
StockFilter_CodigoOnly(df) ==
    LET ensured == FoldCols(df, final_cols_order, StockFinalDefault)
    IN  IF HasCol(ensured, "Codigo")
        THEN FilterRows(ensured, LAMBDA r : r.v["Codigo"] # <<>>)
        ELSE ensured

\* every final column is ensured, then rows with an empty Codigo or Categoria
\* are dropped
StockFilter(df) ==
    LET ensured == FoldCols(df, final_cols_order, StockFinalDefault)
    IN  IF HasCol(ensured, "Codigo") /\ HasCol(ensured, "Categoria")
        THEN FilterRows(ensured,
                        LAMBDA r : r.v["Codigo"] # <<>> /\ r.v["Categoria"] # <<>>)
        ELSE ensured

StockSelect(df) ==
    SelectCols(df, final_cols_order)

(***************************************************************************)
(* parse_eco_visma.                                                        *)
(***************************************************************************)
expected_header_simple ==
    <<"Categoria", "Invierno", "Verano">>

expected_internal_keys_eco ==
    <<"Movilizacion", "Costos Directos", "Costos Indirectos/Generales",
      "Utilidades">>

Seasons ==
    {"invierno", "verano"}

zeroed_eco_data_structure ==
    [season \in Seasons |-> [key \in Range(expected_internal_keys_eco) |-> Zero]]

\* a faulty EcoDataRows: a row of another length is padded or cut as in the
\* stock parser
RECURSIVE EcoDataRows_PadOrCut(_, _, _)
EcoDataRows_PadOrCut(content, i, expected_field_count) ==
    IF i >= Len(content) THEN <<>>
    ELSE LET line == content[i + 1]
             rest == EcoDataRows_PadOrCut(content, i + 1, expected_field_count)
         IN  IF IsBlank(line) \/ IsBad(line) THEN rest
             ELSE <<[line |-> i,
                     fields |-> PadOrCut(CsvFields(line), expected_field_count)]>>
                  \o rest

\* the data_rows loop of parse_eco_visma: a row of another length is skipped
RECURSIVE EcoDataRows(_, _, _)
EcoDataRows(content, i, expected_field_count) ==
    IF i >= Len(content) THEN <<>>
    ELSE LET line == content[i + 1]
             rest == EcoDataRows(content, i + 1, expected_field_count)
         IN  IF IsBlank(line) \/ IsBad(line) THEN rest
             ELSE IF Len(CsvFields(line)) # expected_field_count THEN rest
             ELSE <<[line |-> i, fields |-> CsvFields(line)]>> \o rest

EcoNumericCols ==
    <<"Invierno", "Verano">>

EcoNumber(df, c) ==
    IF HasCol(df, c) THEN ParseCol(df, c) ELSE SetCol(df, c, LAMBDA r : Zero)

EcoNormalize(df) ==
    FoldCols(StripCol(df, "Categoria"), EcoNumericCols, EcoNumber)

\* a faulty category_mapping_to_internal_key: any other label counts as
\* Utilidades
category_mapping_to_internal_key_CatchAll(label) ==
    CASE label = <<"M", "o", "v", "i", "l", "i", "z", "a", "c", "i", "o", "n">> -> "Movilizacion"
      [] label = <<"C", "o", "s", "t", "o", "s", "D", "i", "r", "e", "c", "t", "o", "s">> -> "Costos Directos"
      [] label = <<"C", "o", "s", "t", "o", "s", "I", "n", "d", "i", "r", "e", "c", "t", "o", "s", "G", "e", "n", "e", "r", "a", "l", "e", "s">> -> "Costos Indirectos/Generales"
      [] OTHER -> "Utilidades"

\* category_mapping_to_internal_key.get(label); "None" when there is no entry
category_mapping_to_internal_key(label) ==
    CASE label = <<"M","o","v","i","l","i","z","a","c","i","o","n">> -> "Movilizacion"
      [] label = <<"C","o","s","t","o","s","D","i","r","e","c","t","o","s">> -> "Costos Directos"
      [] label = <<"C","o","s","t","o","s","I","n","d","i","r","e","c","t","o","s","G","e","n","e","r","a","l","e","s">> -> "Costos Indirectos/Generales"
      [] label = <<"U","t","i","l","i","d","a","d","e","s">> -> "Utilidades"
      [] OTHER -> "None"

\* a faulty EcoAddRow: the cell is assigned, not added to
EcoAddRow_Overwrite(parsed_costs, row) ==
    LET internal_category_key == category_mapping_to_internal_key(row.v["Categoria"])
    IN  IF internal_category_key \in Range(expected_internal_keys_eco)
        THEN [parsed_costs EXCEPT
                !["invierno"][internal_category_key] = row.v["Invierno"],
                !["verano"][internal_category_key] = row.v["Verano"]]
        ELSE parsed_costs

\* one pass of the iterrows loop
EcoAddRow(parsed_costs, row) ==
    LET internal_category_key == category_mapping_to_internal_key(row.v["Categoria"])
    IN  IF internal_category_key \in Range(expected_internal_keys_eco)
        THEN [parsed_costs EXCEPT
                !["invierno"][internal_category_key] = Add(@, row.v["Invierno"]),
                !["verano"][internal_category_key] = Add(@, row.v["Verano"])]
        ELSE parsed_costs

RECURSIVE EcoAccumulate(_, _)
EcoAccumulate(parsed_costs, rows) ==
    IF rows = <<>> THEN parsed_costs
    ELSE EcoAccumulate(EcoAddRow(parsed_costs, Head(rows)), Tail(rows))

\* the grid parse_eco_visma returns for content with its header at offset i
EcoGrid(content, i) ==
    LET data_rows == EcoDataRows(content, i + 1, Len(expected_header_simple))
    IN  IF data_rows = <<>> THEN zeroed_eco_data_structure
        ELSE EcoAccumulate(zeroed_eco_data_structure,
                           EcoNormalize(DataFrame(data_rows,
                                                  expected_header_simple)).rows)

(***************************************************************************)
(* parse_fuel_log.                                                         *)
(***************************************************************************)
empty_fuel_cols_template ==
    <<"Fecha", "Equipo/Int.", "Codigo", "Lts Ingreso", "Lts Egreso", "HsKm",
      "Comentarios", "Tipo de Comb.", "Hs/Km_Numeric", "Costo Unitario Lt",
      "Costo Total Egreso">>

expected_data_header_simple_v2 ==
    <<"Fecha", "Equipo", "CodigoCombustible", "LtsIngreso", "LtsEgreso", "HsKm",
      "Comentarios", "CostoUnitarioLt">>

\* a faulty internal_standard_cols_ordered: a final order that lost a column
\* of the template
internal_standard_cols_ordered_Short ==
    <<"Fecha", "Equipo/Int.", "Codigo", "Lts Ingreso", "Lts Egreso", "HsKm",
      "Hs/Km_Numeric", "Tipo de Comb.", "Costo Unitario Lt",
      "Costo Total Egreso">>

internal_standard_cols_ordered ==
    <<"Fecha", "Equipo/Int.", "Codigo", "Lts Ingreso", "Lts Egreso", "HsKm",
      "Hs/Km_Numeric", "Tipo de Comb.", "Comentarios", "Costo Unitario Lt",
      "Costo Total Egreso">>

SearchRangeSetup == 100

\* dict assignment on a mapping kept as a set of <<key, value>> pairs
MapPut(mapping, key, value) ==
    {p \in mapping : p[1] # key} \cup {<<key, value>>}

MapHas(mapping, key) ==
    \E p \in mapping : p[1] = key

MapGet(mapping, key) ==
    (CHOOSE p \in mapping : p[1] = key)[2]

ScanStart ==
    [saldo_gasoil |-> Zero, saldo_nafta |-> Zero, fuel_type_mapping |-> {},
     data_header_index |-> -1]

\* line_fields_clean of the SETUP scan: the marker is cut from the first field
\* of the first line only, before the fields are trimmed
FuelCleanFields(line, i) ==
    LET line_fields == CsvFields(line)
        unmarked == IF i = 0 /\ line_fields # <<>> /\ line_fields[1] # <<>>
                       /\ line_fields[1][1] = BOM
                    THEN [line_fields EXCEPT ![1] = Tail(line_fields[1])]
                    ELSE line_fields
    IN  [k \in 1..Len(unmarked) |-> Strip(unmarked[k])]

\* a faulty FuelSetup: the directive name is compared as written
FuelSetup_ExactCase(st, clean) ==
    IF Len(clean) <= 1 THEN st
    ELSE LET setup_type == clean[2]
         IN  IF setup_type = <<"S","A","L","D","O"," ","I","N","I","C","I","A","L"," ","G","A","S","O","I","L">>
             THEN IF Len(clean) > 2
                  THEN [st EXCEPT !.saldo_gasoil = safe_float_parse(clean[3])]
                  ELSE st
             ELSE IF setup_type = <<"S","A","L","D","O"," ","I","N","I","C","I","A","L"," ","N","A","F","T","A">>
             THEN IF Len(clean) > 2
                  THEN [st EXCEPT !.saldo_nafta = safe_float_parse(clean[3])]
                  ELSE st
             ELSE IF setup_type = <<"M","A","P","E","O"," ","C","O","D","I","G","O">>
             THEN IF Len(clean) > 3 /\ clean[3] # <<>> /\ clean[4] # <<>>
                  THEN [st EXCEPT !.fuel_type_mapping =
                            MapPut(@, Strip(clean[3]), Strip(clean[4]))]
                  ELSE st
             ELSE st

\* a faulty FuelSetup: a MAPEO CODIGO directive is stored whenever it has a
\* code field and a label field, empty or not
FuelSetup_EmptyAllowed(st, clean) ==
    IF Len(clean) <= 1 THEN st
    ELSE LET setup_type == Upper(clean[2])
         IN  IF setup_type = <<"S","A","L","D","O"," ","I","N","I","C","I","A","L"," ","G","A","S","O","I","L">>
             THEN IF Len(clean) > 2
                  THEN [st EXCEPT !.saldo_gasoil = safe_float_parse(clean[3])]
                  ELSE st
             ELSE IF setup_type = <<"S","A","L","D","O"," ","I","N","I","C","I","A","L"," ","N","A","F","T","A">>
             THEN IF Len(clean) > 2
                  THEN [st EXCEPT !.saldo_nafta = safe_float_parse(clean[3])]
                  ELSE st
             ELSE IF setup_type = <<"M","A","P","E","O"," ","C","O","D","I","G","O">>
             THEN IF Len(clean) > 3
                  THEN [st EXCEPT !.fuel_type_mapping =
                            MapPut(@, Strip(clean[3]), Strip(clean[4]))]
                  ELSE st
             ELSE st

\* the effect of one SETUP line on the scan state
FuelSetup(st, clean) ==
    IF Len(clean) <= 1 THEN st
    ELSE LET setup_type == Upper(clean[2])
         IN  IF setup_type = <<"S","A","L","D","O"," ","I","N","I","C","I","A","L"," ","G","A","S","O","I","L">>
             THEN IF Len(clean) > 2
                  THEN [st EXCEPT !.saldo_gasoil = safe_float_parse(clean[3])]
                  ELSE st
             ELSE IF setup_type = <<"S","A","L","D","O"," ","I","N","I","C","I","A","L"," ","N","A","F","T","A">>
             THEN IF Len(clean) > 2
                  THEN [st EXCEPT !.saldo_nafta = safe_float_parse(clean[3])]
                  ELSE st
             ELSE IF setup_type = <<"M","A","P","E","O"," ","C","O","D","I","G","O">>
             THEN IF Len(clean) > 3 /\ clean[3] # <<>> /\ clean[4] # <<>>
                  THEN [st EXCEPT !.fuel_type_mapping =
                            MapPut(@, Strip(clean[3]), Strip(clean[4]))]
                  ELSE st
             ELSE st

\* a line of the scan that csv.reader reads and whose first field is SETUP
IsSetupLine(content, i) ==
    /\ ~IsBlank(content[i + 1])
    /\ ~IsBad(content[i + 1])
    /\ FuelCleanFields(content[i + 1], i) # <<>>
    /\ Upper(FuelCleanFields(content[i + 1], i)[1]) = <<"S","E","T","U","P">>

\* a line of the scan that is no SETUP line and equals the data header
IsDataHeader(content, i) ==
    /\ ~IsBlank(content[i + 1])
    /\ ~IsBad(content[i + 1])
    /\ ~IsSetupLine(content, i)
    /\ FuelCleanFields(content[i + 1], i) =
           HeaderTexts(expected_data_header_simple_v2)

\* data_header_index: the scan breaks at the first data header
FuelHeaderIndex(content) ==
    LET hits == {i \in Window(content, SearchRangeSetup) : IsDataHeader(content, i)}
    IN  IF hits = {} THEN -1 ELSE Min(hits)

\* the SETUP lines the scan handles, in file order: those of the window that
\* precede the data header
RECURSIVE FuelSetups(_, _, _)
FuelSetups(content, st, todo) ==
    IF todo = {} THEN st
    ELSE FuelSetups(content,
                    FuelSetup(st, FuelCleanFields(content[Min(todo) + 1], Min(todo))),
                    todo \ {Min(todo)})

\* a faulty FuelScanFrom: the scan goes on to the end of the window after the
\* data header
FuelScanFrom_NoBreak(content, st) ==
    LET todo == {i \in Window(content, SearchRangeSetup) : IsSetupLine(content, i)}
    IN  [FuelSetups(content, st, todo)
            EXCEPT !.data_header_index = FuelHeaderIndex(content)]

\* the SETUP / data header scan, from the balances and mapping st
FuelScanFrom(content, st) ==
    LET data_header_index == FuelHeaderIndex(content)
        todo == {i \in Window(content, SearchRangeSetup) :
                    /\ data_header_index = -1 \/ i < data_header_index
                    /\ IsSetupLine(content, i)}
    IN  [FuelSetups(content, st, todo)
            EXCEPT !.data_header_index = data_header_index]

\* the scan of one call: its balances and mapping are locals set on entry
FuelScan(content) ==
    FuelScanFrom(content, ScanStart)

\* the lines the pandas tokenizer sees in one file line: a carriage return
\* ends a line
RECURSIVE SplitCR(_)
SplitCR(fields) ==
    IF \E k \in 1..Len(fields) : Has(fields[k], "\r")
    THEN LET k == CHOOSE n \in 1..Len(fields) :
                      /\ Has(fields[n], "\r")
                      /\ \A j \in 1..(n - 1) : ~Has(fields[j], "\r")
             p == CHOOSE q \in 1..Len(fields[k]) :
                      /\ fields[k][q] = "\r"
                      /\ \A j \in 1..(q - 1) : fields[k][j] # "\r"
         IN  <<SubSeq(fields, 1, k - 1) \o <<SubSeq(fields[k], 1, p - 1)>>>>
             \o SplitCR(<<SubSeq(fields[k], p + 1, Len(fields[k]))>>
                        \o SubSeq(fields, k + 1, Len(fields)))
    ELSE <<fields>>

\* the records pd.read_csv tokenizes below the header, blank lines skipped,
\* fields untrimmed
RECURSIVE PandasRecords(_, _)
PandasRecords(content, i) ==
    IF i >= Len(content) THEN <<>>
    ELSE LET parts == SelectSeq2(SplitCR(content[i + 1]),
                                 LAMBDA f : ~IsBlank(f))
         IN  [k \in 1..Len(parts) |-> [line |-> i, fields |-> parts[k]]]
             \o PandasRecords(content, i + 1)

\* pd.read_csv(data_block, header=0, dtype=str, keep_default_na=False): the
\* table is as wide as the wider of the header and the first record; a later
\* record with more fields raises ParserError (ok = FALSE); a shorter record
\* is filled with empty fields, which stay '' because no text counts as
\* missing; fields in excess of the header in front become the index, so that
\* the named columns are the last ones.
PandasReadCsv(content, data_header_index, names) ==
    LET recs == PandasRecords(content, data_header_index + 1)
        width == IF recs # <<>> /\ Len(recs[1].fields) > Len(names)
                 THEN Len(recs[1].fields)
                 ELSE Len(names)
        lead == width - Len(names)
    IN  IF \E j \in 1..Len(recs) : Len(recs[j].fields) > width
        THEN [ok |-> FALSE, rows |-> <<>>]
        ELSE [ok |-> TRUE,
              rows |-> [j \in 1..Len(recs) |->
                          [line |-> recs[j].line,
                           fields |-> [c \in 1..Len(names) |->
                                         IF lead + c <= Len(recs[j].fields)
                                         THEN recs[j].fields[lead + c]
                                         ELSE <<>>]]]]

NaT ==
    [ok |-> FALSE, d |-> 0, m |-> 0, y |-> 0]

\* pd.to_datetime(text, errors='coerce', dayfirst=True): day, month and year
\* of DD-MM-YYYY or DD/MM/YYYY text, NaT for a missing value or other text.
\* The input files keep to one of the two formats, so that the format pandas
\* infers for the column is the format of each of its dates.
to_datetime(v) ==
    LET s == Strip(PyStr(v))
        digits == {1, 2, 4, 5, 7, 8, 9, 10}
        d == DigitsValue(SubSeq(s, 1, 2))
        m == DigitsValue(SubSeq(s, 4, 5))
        y == DigitsValue(SubSeq(s, 7, 10))
    IN  IF /\ ~IsNA(v)
           /\ Len(s) = 10
           /\ s[3] \in {"-", "/"}
           /\ s[6] = s[3]
           /\ \A i \in digits : IsDigit(s[i])
           /\ d \in 1..31
           /\ m \in 1..12
        THEN [ok |-> TRUE, d |-> d, m |-> m, y |-> y]
        ELSE NaT

standard_string_cols ==
    <<"Equipo", "CodigoCombustible", "HsKm", "Comentarios">>

standard_numeric_cols_to_parse ==
    <<"LtsIngreso", "LtsEgreso", "CostoUnitarioLt">>

Desconocido ==
    <<"D","e","s","c","o","n","o","c","i","d","o">>

\* `.astype(str).str.strip().fillna('')` on one value of a string column
FuelText(v) ==
    Strip(PyStr(v))

FuelNormalize(df) ==
    LET dated == IF HasCol(df, "Fecha")
                 THEN SetCol(df, "Fecha", LAMBDA r : to_datetime(r.v["Fecha"]))
                 ELSE SetCol(df, "Fecha", LAMBDA r : NaT)
        StringCol(t, c) ==
            IF HasCol(t, c)
            THEN SetCol(t, c, LAMBDA r : FuelText(r.v[c]))
            ELSE SetCol(t, c, LAMBDA r : <<>>)
        NumberCol(t, c) ==
            IF HasCol(t, c) THEN ParseCol(t, c)
            ELSE SetCol(t, c, LAMBDA r : Zero)
    IN  FoldCols(FoldCols(dated, standard_string_cols, StringCol),
                 standard_numeric_cols_to_parse, NumberCol)

\* fuel_type_mapping lookup with the 'Desconocido' default
\* a faulty TipoDeComb: an unmapped code is its own label
TipoDeComb_CodeAsLabel(fuel_type_mapping, code) ==
    IF MapHas(fuel_type_mapping, code)
    THEN MapGet(fuel_type_mapping, code)
    ELSE code

TipoDeComb(fuel_type_mapping, code) ==
    IF MapHas(fuel_type_mapping, code)
    THEN MapGet(fuel_type_mapping, code)
    ELSE Desconocido

\* Hs/Km_Numeric, Costo Total Egreso and Tipo de Comb.
FuelDerive(df, fuel_type_mapping) ==
    LET numeric == SetCol(df, "Hs/Km_Numeric",
                          LAMBDA r : FillNa0(safe_float_parse(r.v["HsKm"])))
        costed == IF HasCol(numeric, "LtsEgreso") /\ HasCol(numeric, "CostoUnitarioLt")
                  THEN SetCol(numeric, "Costo Total Egreso",
                              LAMBDA r : Mul(FillNa0(r.v["LtsEgreso"]),
                                             FillNa0(r.v["CostoUnitarioLt"])))
                  ELSE SetCol(numeric, "Costo Total Egreso", LAMBDA r : Zero)
    IN  IF HasCol(costed, "CodigoCombustible")
        THEN SetCol(SetCol(costed, "CodigoCombustible",
                           LAMBDA r : Strip(r.v["CodigoCombustible"])),
                    "Tipo de Comb.",
                    LAMBDA r : TipoDeComb(fuel_type_mapping,
                                          Strip(r.v["CodigoCombustible"])))
        ELSE SetCol(costed, "Tipo de Comb.", LAMBDA r : Desconocido)

\* a faulty FuelFilter: the equipment is not required
FuelFilter_NoEquipo(df) ==
    LET dated == FilterRows(AddMissing(df, "Fecha", NaT),
                            LAMBDA r : r.v["Fecha"].ok)
    IN  FilterRows(AddMissing(dated, "CodigoCombustible", <<>>),
                   LAMBDA r : Strip(r.v["CodigoCombustible"]) # <<>>)

\* rows without a parsed date, an equipment or a fuel code are dropped
FuelFilter(df) ==
    LET dated == FilterRows(AddMissing(df, "Fecha", NaT),
                            LAMBDA r : r.v["Fecha"].ok)
        equipped == FilterRows(AddMissing(dated, "Equipo", <<>>),
                               LAMBDA r : Strip(r.v["Equipo"]) # <<>>)
    IN  FilterRows(AddMissing(equipped, "CodigoCombustible", <<>>),
                   LAMBDA r : Strip(r.v["CodigoCombustible"]) # <<>>)

\* df.rename(columns={src: dst}) when src is a column
RenameCol(df, src, dst) ==
    IF ~HasCol(df, src) THEN df
    ELSE [cols |-> [i \in 1..Len(df.cols) |->
                      IF df.cols[i] = src THEN dst ELSE df.cols[i]],
          rows |-> [j \in 1..Len(df.rows) |->
                      [line |-> df.rows[j].line,
                       v |-> [c \in (Range(df.cols) \ {src}) \cup {dst} |->
                                IF c = dst THEN df.rows[j].v[src]
                                ELSE df.rows[j].v[c]]]]]

rename_map_to_internal ==
    <<<<"Equipo", "Equipo/Int.">>, <<"CodigoCombustible", "Codigo">>,
      <<"LtsIngreso", "Lts Ingreso">>, <<"LtsEgreso", "Lts Egreso">>,
      <<"CostoUnitarioLt", "Costo Unitario Lt">>>>

FuelFinalDefault(df, col) ==
    IF col \in {"Lts Ingreso", "Lts Egreso", "Hs/Km_Numeric",
                "Costo Unitario Lt", "Costo Total Egreso"}
    THEN AddMissing(df, col, Zero)
    ELSE IF col = "Fecha" THEN AddMissing(df, col, NaT)
    ELSE AddMissing(df, col, <<>>)

\* rename to the internal names, add what is missing, reorder
FuelSelect(df) ==
    LET renamed == FoldCols(df, rename_map_to_internal,
                            LAMBDA t, pair : RenameCol(t, pair[1], pair[2]))
        ensured == FoldCols(renamed, internal_standard_cols_ordered,
                            FuelFinalDefault)
    IN  SelectCols(ensured, internal_standard_cols_ordered)

(***************************************************************************)
(* Input files.  A file is `pad` filler lines (text that is neither a      *)
(* header nor a directive) followed by up to MaxLines lines of the pool of *)
(* its kind.                                                               *)
(***************************************************************************)
JunkLine ==
    <<<<"j","u","n","k">>>>

BlankLine ==
    <<<<" "," ">>>>

\* a line with an embedded carriage return
BadLine ==
    <<<<"x","\r","y">>>>

StockLines ==
    {HeaderTexts(expected_header_full),
     HeaderTexts(expected_header_no_min),
     JunkLine, BlankLine, BadLine,
     <<<<"A","B","C">>, <<"x">>, <<"y">>, <<"5",".","0">>, <<"1","2","5","0",".","5","0">>, <<"z">>, <<"7">>>>,
     <<<<" ">>, <<"x">>, <<"y">>, <<"1">>, <<"2">>, <<"z">>, <<"0">>>>,
     <<<<"D","E","F">>, <<"w">>, <<" ">>, <<"2">>, <<"3">>, <<"z">>>>,
     <<<<" ","G","H","I"," ">>, <<"x">>, <<"y">>>>,
     <<<<"J","K","L">>, <<"x">>, <<"y">>, <<"N","a","N">>, <<"2">>, <<"z">>, <<"1">>>>,
     <<<<"M","N","O">>, <<"x">>, <<"y">>, <<"2">>, <<"1",".","2","5","0",",","5","0">>, <<"z">>, <<"3">>, <<"e","x","t","r","a">>>>,
     <<<<"P",InvalidByte,"Q">>, <<"x">>, <<"y">>, <<"1">>, <<"2">>, <<"z">>, <<"0">>>>}

EcoLines ==
    {HeaderTexts(expected_header_simple),
     JunkLine, BlankLine, BadLine,
     <<<<"C","o","s","t","o","s","D","i","r","e","c","t","o","s">>, <<"1","0","0">>, <<"5","0">>>>,
     <<<<" ","C","o","s","t","o","s","D","i","r","e","c","t","o","s"," ">>, <<"5","0">>, <<"0",".","5">>>>,
     <<<<"M","o","v","i","l","i","z","a","c","i","o","n">>, <<"1",",","5">>, <<"$"," ","2">>>>,
     <<<<"U","t","i","l","i","d","a","d","e","s">>, <<"i","n","f">>, <<"-","3">>>>,
     <<<<"O","t","r","o","s">>, <<"7">>, <<"7">>>>,
     <<<<"C","o","s","t","o","s","D","i","r","e","c","t","o","s">>, <<"9">>>>,
     <<<<"C","o","s","t","o","s","D","i","r","e","c","t","o","s">>, <<"9">>, <<"9">>, <<"9">>>>,
     <<<<"C","o","s","t","o","s","D","i","r","e","c","t","o","s">>, <<"1",InvalidByte>>, <<"2">>>>}

FuelLines ==
    {HeaderTexts(expected_data_header_simple_v2),
     JunkLine, BlankLine,
     <<<<"S","E","T","U","P">>, <<"S","a","l","d","o"," ","I","n","i","c","i","a","l"," ","G","A","S","O","I","L">>, <<"5","0","0",".","0","0">>>>,
     <<<<"s","e","t","u","p">>, <<"S","A","L","D","O"," ","I","N","I","C","I","A","L"," ","N","A","F","T","A">>, <<"2","0">>>>,
     <<<<"S","E","T","U","P">>, <<"M","A","P","E","O"," ","C","O","D","I","G","O">>, <<"0","0","1">>, <<"G","A","S","O","I","L">>>>,
     <<<<"0","1","-","0","3","-","2","0","2","5">>, <<"M","O","-","1","3","-","V">>, <<"0","0","1">>, <<"0",".","0">>, <<"9","8",".","0">>, <<"1","7","7","8",".","0">>,
       <<"C","o","n","s","u","m","o"," ","n","o","r","m","a","l">>, <<"1","2","0","0",".","5","0">>>>,
     <<<<"s","i","n"," ","f","e","c","h","a">>, <<"M","O","-","1","3","-","V">>, <<"0","0","1">>, <<"1">>, <<"2">>, <<"3">>, <<"c">>, <<"4">>>>,
     <<<<"0","2","-","0","3","-","2","0","2","5">>, <<" ">>, <<"0","0","1">>, <<"1">>, <<"2">>, <<"3">>, <<"c">>, <<"4">>>>,
     <<<<"0","3","-","0","3","-","2","0","2","5">>>>,
     <<<<"0","4","-","0","3","-","2","0","2","5">>, <<"E","Q","2">>, <<"0","0","2">>, <<"0">>, <<"N","a","N">>, <<"n","a","n">>, <<"c">>, <<"2">>>>,
     <<<<"0","5","-","0","3","-","2","0","2","5">>, <<"E","Q","3">>, <<"0","0","1">>, <<"0">>, <<"1">>, <<"2">>, <<"c">>, <<"3">>,
       <<"e","x","t","r","a">>>>,
     <<<<"0","6","-","0","3","-","2","0","2","5">>, <<"E","Q",InvalidByte>>, <<"0","0","1">>, <<"0">>, <<"1">>, <<"2">>, <<"c">>, <<"3">>>>,
     BadLine}

Kinds ==
    {"stock", "eco", "fuel"}

LinesOf(k) ==
    CASE k = "stock" -> StockLines
      [] k = "eco" -> EcoLines
      [] k = "fuel" -> FuelLines

\* the files of kind k with at most n lines
FilesOf(k, n) ==
    UNION {[1..m -> LinesOf(k)] : m \in 0..n}

\* numbers of filler lines: none, and enough to push every line out of both
\* scan windows
Pads ==
    {0, SearchRangeSetup}

(***************************************************************************)
(* The state of one parse.                                                 *)
(***************************************************************************)
VARIABLES
    kind,                   \* which parser runs
    pad,                    \* filler lines in front of the file
    file,                   \* the lines after the filler
    pc,                     \* the stage the parse is at
    header_row_index,       \* 0-based offset of the header, -1 before / without
    detected_header_names,  \* the candidate that matched
    scan,                   \* balances and code mapping of the SETUP scan
    df,                     \* the table being built
    parsed_costs,           \* the budget grid being built
    result,                 \* what the parser returns
    cpc,                    \* where a call of safe_float_parse is at
    value_in,               \* the argument of safe_float_parse
    value_clean,            \* its local value_str as float() receives it
    value_out,              \* what it returns
    value_back,             \* what it returns for the text of value_out
    calls,                  \* the calls of the session that have returned
    uploader,               \* the file each file_uploader widget holds
    session_state,          \* st.session_state: last file id and data per kind
    parsed_from,            \* history: the lines the stored data was parsed from
    view,                   \* the data the tabs receive
    run,                    \* where the script run is at
    events                  \* the widget events so far

parseVars ==
    <<kind, pad, file, pc, header_row_index, detected_header_names,
      scan, df, parsed_costs, result>>

coerceVars ==
    <<cpc, value_in, value_clean, value_out, value_back>>

appVars ==
    <<uploader, session_state, parsed_from, view, run, events>>

vars ==
    <<parseVars, coerceVars, calls, appVars>>

\* io.StringIO(getvalue().decode("utf-8", errors='replace')).readlines()
Content ==
    [i \in 1..pad |-> JunkLine] \o Decode(file)

Pending ==
    [tag |-> "pending"]

None ==
    [tag |-> "None"]

StockResult(table) ==
    [tag |-> "DataFrame", df |-> table]

EcoResult(grid) ==
    [tag |-> "dict", grid |-> grid]

FuelResult(table, st) ==
    [tag |-> "tuple", df |-> table,
     stock |-> [GASOIL |-> st.saldo_gasoil, NAFTA |-> st.saldo_nafta]]

\* the script of the application is not followed
AppIdle ==
    /\ uploader = [k \in Kinds |-> None]
    /\ session_state = [k \in Kinds |-> [last_file_id |-> None, data |-> None]]
    /\ parsed_from = [k \in Kinds |-> None]
    /\ view = [k \in Kinds |-> Pending]
    /\ run = "off"
    /\ events = 0

\* no call of safe_float_parse is being followed
CoerceIdle ==
    /\ cpc = "idle"
    /\ value_in = <<>>
    /\ value_clean = <<>>
    /\ value_out = Pending
    /\ value_back = Pending

Init ==
    /\ kind \in Kinds
    /\ pad \in Pads
    /\ file \in FilesOf(kind, IF pad = 0 THEN MaxLines ELSE MaxPaddedLines)
    /\ pc = "LocateHeader"
    /\ header_row_index = -1
    /\ detected_header_names = <<>>
    /\ scan = ScanStart
    /\ df = EmptyFrame(<<>>)
    /\ parsed_costs = zeroed_eco_data_structure
    /\ result = Pending
    /\ CoerceIdle
    /\ calls = <<>>
    /\ AppIdle

Return(value) ==
    /\ result' = value
    /\ pc' = "done"

\* header location; for the fuel log the SETUP scan that also reads directives
LocateHeader ==
    /\ pc = "LocateHeader"
    /\ LET scanned == FuelScanFrom(Content, scan)
           found == CASE kind = "stock" -> StockFindHeader(Content)
                      [] kind = "eco" ->
                           find_header_row(Content, expected_header_simple,
                                           SearchRange)
                      [] kind = "fuel" ->
                           [idx |-> scanned.data_header_index,
                            names |-> expected_data_header_simple_v2]
       IN  /\ header_row_index' = found.idx
           /\ detected_header_names' = IF found.idx = -1 THEN <<>> ELSE found.names
           /\ scan' = IF kind = "fuel" THEN scanned ELSE scan
           /\ IF found.idx = -1
              THEN Return(IF kind = "fuel"
                          THEN FuelResult(EmptyFrame(empty_fuel_cols_template),
                                          scanned)
                          ELSE None)
              ELSE pc' = "Materialize" /\ UNCHANGED result
    /\ UNCHANGED <<coerceVars, calls, appVars>>
    /\ UNCHANGED <<kind, pad, file, df, parsed_costs>>

\* the raw rows below the header; without any the parse ends with the empty
\* canonical structure
Materialize ==
    /\ pc = "Materialize"
    /\ LET n == Len(detected_header_names)
           read == PandasReadCsv(Content, header_row_index, detected_header_names)
           data_rows == CASE kind = "stock" ->
                               StockDataRows(Content, header_row_index + 1, n)
                          [] kind = "eco" ->
                               EcoDataRows(Content, header_row_index + 1, n)
                          [] kind = "fuel" -> read.rows
       IN  IF data_rows = <<>>
           THEN /\ Return(CASE kind = "stock" -> StockResult(EmptyFrame(final_cols_order_template))
                            [] kind = "eco" -> EcoResult(zeroed_eco_data_structure)
                            [] kind = "fuel" ->
                                 FuelResult(EmptyFrame(empty_fuel_cols_template), scan))
                /\ UNCHANGED df
           ELSE /\ df' = DataFrame(data_rows, detected_header_names)
                /\ pc' = "Normalize"
                /\ UNCHANGED result
    /\ UNCHANGED <<coerceVars, calls, appVars>>
    /\ UNCHANGED <<kind, pad, file, header_row_index,
                   detected_header_names, scan, parsed_costs>>

\* string columns trimmed, numeric columns coerced, missing columns added
Normalize ==
    /\ pc = "Normalize"
    /\ df' = CASE kind = "stock" -> StockNormalize(df)
               [] kind = "eco" -> EcoNormalize(df)
               [] kind = "fuel" -> FuelNormalize(df)
    /\ pc' = "Derive"
    /\ UNCHANGED <<coerceVars, calls, appVars>>
    /\ UNCHANGED <<kind, pad, file, header_row_index,
                   detected_header_names, scan, parsed_costs, result>>

\* derived columns; for the budget the sums per category and season
Derive ==
    /\ pc = "Derive"
    /\ df' = CASE kind = "stock" -> StockDerive(df)
               [] kind = "eco" -> df
               [] kind = "fuel" -> FuelDerive(df, scan.fuel_type_mapping)
    /\ parsed_costs' = IF kind = "eco"
                       THEN EcoAccumulate(parsed_costs, df.rows)
                       ELSE parsed_costs
    /\ pc' = IF kind = "eco" THEN "Emit" ELSE "Filter"
    /\ UNCHANGED <<coerceVars, calls, appVars>>
    /\ UNCHANGED <<kind, pad, file, header_row_index,
                   detected_header_names, scan, result>>

\* the validity filter
Filter ==
    /\ pc = "Filter"
    /\ df' = CASE kind = "stock" -> StockFilter(df)
               [] kind = "fuel" -> FuelFilter(df)
    /\ pc' = "Emit"
    /\ UNCHANGED <<coerceVars, calls, appVars>>
    /\ UNCHANGED <<kind, pad, file, header_row_index,
                   detected_header_names, scan, parsed_costs, result>>

\* the return statement at the end of the parser
Emit ==
    /\ pc = "Emit"
    /\ Return(CASE kind = "stock" -> StockResult(StockSelect(df))
                [] kind = "eco" -> EcoResult(parsed_costs)
                [] kind = "fuel" -> FuelResult(FuelSelect(df), scan))
    /\ UNCHANGED <<coerceVars, calls, appVars>>
    /\ UNCHANGED <<kind, pad, file, header_row_index,
                   detected_header_names, scan, df, parsed_costs>>

Next ==
    \/ LocateHeader
    \/ Materialize
    \/ Normalize
    \/ Derive
    \/ Filter
    \/ Emit

Spec ==
    Init /\ [][Next]_vars

(***************************************************************************)
(* The parsers on files made of header look-alikes: the header with its    *)
(* columns reordered, with one more empty field, in lower case, with       *)
(* spaces around the names, with a byte-order marker.  A line is the list  *)
(* of fields csv.reader yields, so quoting is not told apart.              *)
(***************************************************************************)
Reordered(h) ==
    [h EXCEPT ![1] = h[2], ![2] = h[1]]

WithEmptyField(h) ==
    Append(h, <<>>)

LowerCased(h) ==
    [k \in 1..Len(h) |-> Lower(h[k])]

Spaced(h) ==
    [k \in 1..Len(h) |-> <<" ">> \o h[k] \o <<" ">>]

Marked(h) ==
    [h EXCEPT ![1] = <<BOM>> \o h[1]]

MarkedSpaced(h) ==
    [h EXCEPT ![1] = <<BOM, " ">> \o h[1]]

LookAlikes(h) ==
    {Reordered(h), WithEmptyField(h), LowerCased(h)}

HeaderVariants(h) ==
    {h, Spaced(h), Marked(h), MarkedSpaced(h)} \cup LookAlikes(h)

HeaderLinesOf(k) ==
    CASE k = "stock" ->
           HeaderVariants(HeaderTexts(expected_header_full))
               \cup {HeaderTexts(expected_header_no_min), JunkLine, BlankLine,
                     <<<<"A","B","C">>, <<"x">>, <<"y">>, <<"5",".","0">>, <<"1","2","5","0",".","5","0">>, <<"z">>, <<"7">>>>}
      [] k = "eco" ->
           HeaderVariants(HeaderTexts(expected_header_simple))
               \cup {JunkLine, BlankLine,
                     <<<<"C","o","s","t","o","s","D","i","r","e","c","t","o","s">>, <<"1","0","0">>, <<"5","0">>>>}
      [] k = "fuel" ->
           HeaderVariants(HeaderTexts(expected_data_header_simple_v2))
               \cup {JunkLine, BlankLine,
                     <<<<"S","E","T","U","P">>, <<"S","a","l","d","o"," ","I","n","i","c","i","a","l"," ","G","A","S","O","I","L">>, <<"5","0","0",".","0","0">>>>,
                     <<<<"0","1","-","0","3","-","2","0","2","5">>, <<"M","O","-","1","3","-","V">>, <<"0","0","1">>, <<"0",".","0">>, <<"9","8",".","0">>, <<"1","7","7","8",".","0">>, <<"C","o","n","s","u","m","o"," ","n","o","r","m","a","l">>, <<"1","2","0","0",".","5","0">>>>}

HeaderInit ==
    /\ kind \in Kinds
    /\ pad = 0
    /\ file \in UNION {[1..m -> HeaderLinesOf(kind)] : m \in 0..MaxHeaderLines}
    /\ pc = "LocateHeader"
    /\ header_row_index = -1
    /\ detected_header_names = <<>>
    /\ scan = ScanStart
    /\ df = EmptyFrame(<<>>)
    /\ parsed_costs = zeroed_eco_data_structure
    /\ result = Pending
    /\ CoerceIdle
    /\ calls = <<>>
    /\ AppIdle

HeaderSpec ==
    HeaderInit /\ [][Next]_vars

(***************************************************************************)
(* A session: the parsers called one after the other on uploaded files.    *)
(***************************************************************************)
SessionFiles(k) ==
    CASE k = "stock" ->
           {<<HeaderTexts(expected_header_full),
              <<<<"A","B","C">>, <<"x">>, <<"y">>, <<"5",".","0">>, <<"1","2","5","0",".","5","0">>, <<"z">>, <<"7">>>>>>,
            <<JunkLine>>}
      [] k = "eco" ->
           {<<HeaderTexts(expected_header_simple),
              <<<<"C","o","s","t","o","s","D","i","r","e","c","t","o","s">>, <<"1","0","0">>, <<"5","0">>>>>>,
            <<HeaderTexts(expected_header_simple),
              <<<<"M","o","v","i","l","i","z","a","c","i","o","n">>, <<"7">>, <<"3">>>>>>,
            <<HeaderTexts(expected_header_simple)>>}
      [] k = "fuel" ->
           {<<<<<<"S","E","T","U","P">>, <<"S","a","l","d","o"," ","I","n","i","c","i","a","l"," ","G","A","S","O","I","L">>, <<"5","0","0",".","0","0">>>>,
              <<<<"S","E","T","U","P">>, <<"M","A","P","E","O"," ","C","O","D","I","G","O">>, <<"0","0","1">>, <<"G","A","S","O","I","L">>>>,
              HeaderTexts(expected_data_header_simple_v2),
              <<<<"0","1","-","0","3","-","2","0","2","5">>, <<"M","O","-","1","3","-","V">>, <<"0","0","1">>, <<"0",".","0">>, <<"9","8",".","0">>, <<"1","7","7","8",".","0">>, <<"C","o","n","s","u","m","o"," ","n","o","r","m","a","l">>, <<"1","2","0","0",".","5","0">>>>>>,
            <<HeaderTexts(expected_data_header_simple_v2),
              <<<<"0","1","-","0","3","-","2","0","2","5">>, <<"M","O","-","1","3","-","V">>, <<"0","0","1">>, <<"0",".","0">>, <<"9","8",".","0">>, <<"1","7","7","8",".","0">>, <<"C","o","n","s","u","m","o"," ","n","o","r","m","a","l">>, <<"1","2","0","0",".","5","0">>>>>>,
            <<HeaderTexts(expected_data_header_simple_v2)>>,
            <<<<<<"S","E","T","U","P">>, <<"S","a","l","d","o"," ","I","n","i","c","i","a","l"," ","N","A","F","T","A">>, <<"2","0">>>>>>}

\* what a parser has on entry: its locals, nothing of an earlier call
CallLocals_Shared ==
    [header_row_index |-> -1, detected_header_names |-> <<>>,
     scan |-> scan, df |-> EmptyFrame(<<>>), parsed_costs |-> parsed_costs]

CallLocals ==
    [header_row_index |-> -1, detected_header_names |-> <<>>,
     scan |-> ScanStart, df |-> EmptyFrame(<<>>),
     parsed_costs |-> zeroed_eco_data_structure]

SessionInit ==
    /\ kind \in Kinds
    /\ pad = 0
    /\ file \in SessionFiles(kind)
    /\ pc = "LocateHeader"
    /\ header_row_index = -1
    /\ detected_header_names = <<>>
    /\ scan = ScanStart
    /\ df = EmptyFrame(<<>>)
    /\ parsed_costs = zeroed_eco_data_structure
    /\ result = Pending
    /\ CoerceIdle
    /\ calls = <<>>
    /\ AppIdle

\* the next upload is parsed once the call before it has returned
Call ==
    /\ pc = "done"
    /\ Len(calls) + 1 < MaxCalls
    /\ calls' = Append(calls, [kind |-> kind, file |-> file, result |-> result])
    /\ kind' \in Kinds
    /\ pad' = 0
    /\ file' \in SessionFiles(kind')
    /\ pc' = "LocateHeader"
    /\ header_row_index' = CallLocals.header_row_index
    /\ detected_header_names' = CallLocals.detected_header_names
    /\ scan' = CallLocals.scan
    /\ df' = CallLocals.df
    /\ parsed_costs' = CallLocals.parsed_costs
    /\ result' = Pending
    /\ UNCHANGED <<coerceVars, appVars>>

SessionNext ==
    \/ Call
    \/ Next

SessionSpec ==
    SessionInit /\ [][SessionNext]_vars

(***************************************************************************)
(* The parsers on files whose lines stand at the edge of the scan window:  *)
(* filler lines up to two, one or no line before the end of the window,    *)
(* then a blank line, a header, a directive or a data row.                 *)
(***************************************************************************)
WindowPads ==
    {SearchRange - 2, SearchRange - 1, SearchRange,
     SearchRangeSetup - 2, SearchRangeSetup - 1, SearchRangeSetup}

WindowLinesOf(k) ==
    CASE k = "stock" ->
           {HeaderTexts(expected_header_full), HeaderTexts(expected_header_no_min),
            BlankLine,
            <<<<"A","B","C">>, <<"x">>, <<"y">>, <<"5",".","0">>, <<"1","2","5","0",".","5","0">>, <<"z">>, <<"7">>>>}
      [] k = "eco" ->
           {HeaderTexts(expected_header_simple), BlankLine,
            <<<<"C","o","s","t","o","s","D","i","r","e","c","t","o","s">>, <<"1","0","0">>, <<"5","0">>>>}
      [] k = "fuel" ->
           {HeaderTexts(expected_data_header_simple_v2), BlankLine,
            <<<<"S","E","T","U","P">>, <<"S","a","l","d","o"," ","I","n","i","c","i","a","l"," ","G","A","S","O","I","L">>, <<"5","0","0",".","0","0">>>>,
            <<<<"0","1","-","0","3","-","2","0","2","5">>, <<"M","O","-","1","3","-","V">>, <<"0","0","1">>, <<"0",".","0">>, <<"9","8",".","0">>, <<"1","7","7","8",".","0">>,
              <<"C","o","n","s","u","m","o"," ","n","o","r","m","a","l">>, <<"1","2","0","0",".","5","0">>>>}

WindowInit ==
    /\ kind \in Kinds
    /\ pad \in WindowPads
    /\ file \in UNION {[1..m -> WindowLinesOf(kind)] : m \in 0..MaxWindowLines}
    /\ pc = "LocateHeader"
    /\ header_row_index = -1
    /\ detected_header_names = <<>>
    /\ scan = ScanStart
    /\ df = EmptyFrame(<<>>)
    /\ parsed_costs = zeroed_eco_data_structure
    /\ result = Pending
    /\ CoerceIdle
    /\ calls = <<>>
    /\ AppIdle

WindowSpec ==
    WindowInit /\ [][Next]_vars

(***************************************************************************)
(* parse_fuel_log on files made of SETUP directives, complete and          *)
(* incomplete, the data header and one record.                             *)
(***************************************************************************)
SetupLines ==
    {HeaderTexts(expected_data_header_simple_v2),
     <<<<"S","E","T","U","P">>, <<"S","a","l","d","o"," ","I","n","i","c","i","a","l"," ","G","A","S","O","I","L">>, <<"5","0","0",".","0","0">>>>,
     <<<<"S","E","T","U","P">>, <<"S","a","l","d","o"," ","I","n","i","c","i","a","l"," ","G","A","S","O","I","L">>, <<" ","7"," ">>>>,
     <<<<"S","E","T","U","P">>, <<"S","a","l","d","o"," ","I","n","i","c","i","a","l"," ","G","A","S","O","I","L">>>>,
     <<<<"s","e","t","u","p">>, <<"S","A","L","D","O"," ","I","N","I","C","I","A","L"," ","N","A","F","T","A">>, <<"2","0">>>>,
     <<<<"S","E","T","U","P">>, <<"M","A","P","E","O"," ","C","O","D","I","G","O">>, <<"0","0","1">>, <<"G","A","S","O","I","L">>>>,
     <<<<"S","e","t","u","p">>, <<"M","a","p","e","o"," ","C","o","d","i","g","o">>, <<" ","0","0","1"," ">>, <<" ","N","a","f","t","a"," ">>>>,
     <<<<"S","E","T","U","P">>, <<"M","A","P","E","O"," ","C","O","D","I","G","O">>, <<>>, <<"G","A","S","O","I","L">>>>,
     <<<<"S","E","T","U","P">>, <<"M","A","P","E","O"," ","C","O","D","I","G","O">>, <<"0","0","1">>, <<>>>>,
     <<<<"S","E","T","U","P">>, <<"M","A","P","E","O"," ","C","O","D","I","G","O">>, <<"0","0","1">>>>,
     <<<<"S","E","T","U","P">>, <<"M","A","P","E","O"," ","C","O","D","I","G","O">>>>,
     <<<<"0","1","-","0","3","-","2","0","2","5">>, <<"M","O","-","1","3","-","V">>, <<"0","0","1">>, <<"0",".","0">>, <<"9","8",".","0">>, <<"1","7","7","8",".","0">>,
       <<"C","o","n","s","u","m","o"," ","n","o","r","m","a","l">>, <<"1","2","0","0",".","5","0">>>>}

SetupInit ==
    /\ kind = "fuel"
    /\ pad = 0
    /\ file \in UNION {[1..m -> SetupLines] : m \in 0..MaxSetupLines}
    /\ pc = "LocateHeader"
    /\ header_row_index = -1
    /\ detected_header_names = <<>>
    /\ scan = ScanStart
    /\ df = EmptyFrame(<<>>)
    /\ parsed_costs = zeroed_eco_data_structure
    /\ result = Pending
    /\ CoerceIdle
    /\ calls = <<>>
    /\ AppIdle

SetupSpec ==
    SetupInit /\ [][Next]_vars

(***************************************************************************)
(* safe_float_parse on its own: one call, then a call on the text of the   *)
(* number it returned.                                                     *)
(***************************************************************************)
CoerceAlphabet ==
    {"1", "5", "0", ",", ".", "-", " "}

\* the texts of at most n characters of the alphabet
TextsUpTo(n) ==
    UNION {[1..m -> CoerceAlphabet] : m \in 0..n}

CoerceSpecials ==
    {NA, <<"-">>, <<".">>, <<"$">>, <<"n","a","n">>, <<"#","N","/","A">>, <<"N","/","A">>, <<"#","V","A","L","U","E","!">>, <<"N","o","n","e">>, <<"+">>,
     <<"N","a","N">>, <<"i","n","f">>, <<"-","i","n","f">>, <<"I","n","f","i","n","i","t","y">>, <<"a","b","c">>, <<"1","e","5">>, <<"5","e","-","7">>, <<"0",".","0","0","0","0","1">>,
     <<"1",".","2","5","0",",","5","0">>, <<"1",",","2","5","0",".","5","0">>, <<" ","$"," ","1",".","2","5","0",",","5","0"," ">>, <<"1",",","2","5","0",".","5",",","5">>, <<"1",".","2",".","3">>, <<"$"," ","-">>,
     <<"1",".","2","5","0",".","5","0","0",",","5">>, <<"1","2",",","5">>, <<"0",".","5">>}

CoerceInputs ==
    TextsUpTo(MaxChars) \cup CoerceSpecials

\* no parser runs
ParseIdle ==
    /\ kind = "stock"
    /\ pad = 0
    /\ file = <<>>
    /\ pc = "idle"
    /\ header_row_index = -1
    /\ detected_header_names = <<>>
    /\ scan = ScanStart
    /\ df = EmptyFrame(<<>>)
    /\ parsed_costs = zeroed_eco_data_structure
    /\ result = Pending

CoerceInit ==
    /\ ParseIdle
    /\ cpc = "call"
    /\ value_in \in CoerceInputs
    /\ value_clean = <<>>
    /\ value_out = Pending
    /\ value_back = Pending
    /\ calls = <<>>
    /\ AppIdle

\* safe_float_parse(value_in)
Coerce ==
    /\ cpc = "call"
    /\ value_out' = safe_float_parse(value_in)
    /\ value_clean' = IF IsNA(value_in) \/ Strip(PyStr(value_in)) \in Sentinels
                      THEN <<>>
                      ELSE DecimalSeparators(BasicCleaning(value_in))
    /\ cpc' = "returned"
    /\ UNCHANGED <<value_in, value_back>>
    /\ UNCHANGED <<parseVars, calls, appVars>>

\* safe_float_parse(str(value_out))
Recoerce ==
    /\ cpc = "returned"
    /\ value_back' = safe_float_parse(FloatStr(value_out))
    /\ cpc' = "recoerced"
    /\ UNCHANGED <<value_in, value_clean, value_out>>
    /\ UNCHANGED <<parseVars, calls, appVars>>

CoerceNext ==
    \/ Coerce
    \/ Recoerce

CoerceSpec ==
    CoerceInit /\ [][CoerceNext]_vars

(***************************************************************************)
(* The script of the application.  Streamlit runs it from the top on page  *)
(* load and after every widget event: per file kind it compares the id of  *)
(* the uploaded file with the stored one, parses on a change, and then     *)
(* retrieves the stored data for the tabs.                                 *)
(***************************************************************************)
\* a file in an uploader
UploadedFile(name, lines) ==
    [tag |-> "file", name |-> name, lines |-> lines]

\* the files a user uploads: per kind a populated file, one that differs from
\* it in one character, one without the header, one with the header only
Uploads(k) ==
    CASE k = "stock" ->
           {UploadedFile("stock.csv",
                <<HeaderTexts(expected_header_full),
                  <<<<"A","B","C">>, <<"x">>, <<"y">>, <<"5",".","0">>, <<"1","2","5","0",".","5","0">>, <<"z">>, <<"7">>>>>>),
            UploadedFile("stock.csv",
                <<HeaderTexts(expected_header_full),
                  <<<<"A","B","D">>, <<"x">>, <<"y">>, <<"5",".","0">>, <<"1","2","5","0",".","5","0">>, <<"z">>, <<"7">>>>>>),
            UploadedFile("stock.csv", <<JunkLine>>),
            UploadedFile("stock.csv", <<HeaderTexts(expected_header_full)>>)}
      [] k = "eco" ->
           {UploadedFile("presupuesto.csv",
                <<HeaderTexts(expected_header_simple),
                  <<<<"C","o","s","t","o","s","D","i","r","e","c","t","o","s">>, <<"1","0","0">>, <<"5","0">>>>>>),
            UploadedFile("presupuesto.csv",
                <<HeaderTexts(expected_header_simple),
                  <<<<"C","o","s","t","o","s","D","i","r","e","c","t","o","s">>, <<"9","0","0">>, <<"5","0">>>>>>),
            UploadedFile("presupuesto.csv", <<JunkLine>>),
            UploadedFile("presupuesto.csv", <<HeaderTexts(expected_header_simple)>>)}
      [] k = "fuel" ->
           {UploadedFile("combustible.csv",
                <<HeaderTexts(expected_data_header_simple_v2),
                  <<<<"0","1","-","0","3","-","2","0","2","5">>, <<"M","O","-","1","3","-","V">>, <<"0","0","1">>, <<"0",".","0">>, <<"9","8",".","0">>, <<"1","7","7","8",".","0">>,
                    <<"C","o","n","s","u","m","o"," ","n","o","r","m","a","l">>, <<"1","2","0","0",".","5","0">>>>>>),
            UploadedFile("combustible.csv", <<JunkLine>>),
            UploadedFile("combustible.csv", <<HeaderTexts(expected_data_header_simple_v2)>>)}

\* the bytes of a line: its fields, the commas between them, the line end
RECURSIVE LineSize(_)
LineSize(line) ==
    IF line = <<>> THEN 0
    ELSE Len(Head(line)) + 1 + LineSize(Tail(line))

\* file.size
RECURSIVE FileSize(_)
FileSize(lines) ==
    IF lines = <<>> THEN 0
    ELSE LineSize(Head(lines)) + FileSize(Tail(lines))

\* f"{file.name}-{file.size}"
get_file_id(uploaded) ==
    IF uploaded = None THEN None
    ELSE [tag |-> "id", name |-> uploaded.name, size |-> FileSize(uploaded.lines)]

\* the structures the retrieval puts in the place of None
RetrievalDefault(k) ==
    CASE k = "stock" -> StockResult(EmptyFrame(final_cols_order_template))
      [] k = "eco" -> EcoResult(zeroed_eco_data_structure)
      [] k = "fuel" -> FuelResult(EmptyFrame(empty_fuel_cols_template), ScanStart)

\* the file kind the script handles after kind k, then the retrieval
AfterKind(k) ==
    CASE k = "stock" -> "eco"
      [] k = "eco" -> "fuel"
      [] k = "fuel" -> "retrieve"

AppInit ==
    /\ ParseIdle
    /\ CoerceIdle
    /\ calls = <<>>
    /\ uploader = [k \in Kinds |-> None]
    /\ session_state = [k \in Kinds |-> [last_file_id |-> None, data |-> None]]
    /\ parsed_from = [k \in Kinds |-> None]
    /\ view = [k \in Kinds |-> Pending]
    /\ run = "stock"
    /\ events = 0

\* the user puts a file in an uploader, in the place of the one it holds
Upload ==
    /\ run = "idle"
    /\ events < MaxEvents
    /\ \E k \in Kinds : \E f \in Uploads(k) :
          /\ f # uploader[k]
          /\ uploader' = [uploader EXCEPT ![k] = f]
    /\ run' = "stock"
    /\ events' = events + 1
    /\ UNCHANGED <<session_state, parsed_from, view>>
    /\ UNCHANGED <<parseVars, coerceVars, calls>>

\* the user takes the file out of an uploader
RemoveFile ==
    /\ run = "idle"
    /\ events < MaxEvents
    /\ \E k \in Kinds :
          /\ uploader[k] # None
          /\ uploader' = [uploader EXCEPT ![k] = None]
    /\ run' = "stock"
    /\ events' = events + 1
    /\ UNCHANGED <<session_state, parsed_from, view>>
    /\ UNCHANGED <<parseVars, coerceVars, calls>>

\* another widget event: the script runs again on the same uploads
Rerun ==
    /\ run = "idle"
    /\ events < MaxEvents
    /\ run' = "stock"
    /\ events' = events + 1
    /\ UNCHANGED <<uploader, session_state, parsed_from, view>>
    /\ UNCHANGED <<parseVars, coerceVars, calls>>

\* `if current_id != last_id`: the stored data is cleared, the id stored, and
\* the parser called when the uploader holds a file
CheckFile ==
    /\ run \in Kinds
    /\ pc = "idle"
    /\ IF get_file_id(uploader[run]) # session_state[run].last_file_id
       THEN /\ session_state' =
                   [session_state EXCEPT
                       ![run] = [last_file_id |-> get_file_id(uploader[run]),
                                 data |-> None]]
            /\ parsed_from' = [parsed_from EXCEPT ![run] = None]
            /\ IF uploader[run] # None
               THEN /\ kind' = run
                    /\ pad' = 0
                    /\ file' = uploader[run].lines
                    /\ pc' = "LocateHeader"
                    /\ header_row_index' = CallLocals.header_row_index
                    /\ detected_header_names' = CallLocals.detected_header_names
                    /\ scan' = CallLocals.scan
                    /\ df' = CallLocals.df
                    /\ parsed_costs' = CallLocals.parsed_costs
                    /\ result' = Pending
                    /\ UNCHANGED run
               ELSE /\ run' = AfterKind(run)
                    /\ UNCHANGED parseVars
       ELSE /\ run' = AfterKind(run)
            /\ UNCHANGED <<session_state, parsed_from, parseVars>>
    /\ UNCHANGED <<uploader, view, events>>
    /\ UNCHANGED <<coerceVars, calls>>

\* the parser has returned: its result is stored
StoreResult ==
    /\ run \in Kinds
    /\ pc = "done"
    /\ session_state' = [session_state EXCEPT ![run].data = result]
    /\ parsed_from' = [parsed_from EXCEPT ![run] = [tag |-> "lines", lines |-> file]]
    /\ pc' = "idle"
    /\ run' = AfterKind(run)
    /\ UNCHANGED <<kind, pad, file, header_row_index, detected_header_names,
                   scan, df, parsed_costs, result>>
    /\ UNCHANGED <<uploader, view, events>>
    /\ UNCHANGED <<coerceVars, calls>>

\* the retrieval: what the tabs receive, None replaced by a default structure
Retrieve ==
    /\ run = "retrieve"
    /\ view' = [k \in Kinds |->
                   IF session_state[k].data = None THEN RetrievalDefault(k)
                   ELSE session_state[k].data]
    /\ run' = "idle"
    /\ UNCHANGED <<uploader, session_state, parsed_from, events>>
    /\ UNCHANGED <<parseVars, coerceVars, calls>>

AppNext ==
    \/ Upload
    \/ RemoveFile
    \/ Rerun
    \/ CheckFile
    \/ StoreResult
    \/ Retrieve
    \/ Next

AppSpec ==
    AppInit /\ [][AppNext]_vars

(***************************************************************************)
(* Properties.                                                             *)
(***************************************************************************)
Done ==
    pc = "done"

\* the 0-based offsets of the lines below the detected header
BelowHeader ==
    (header_row_index + 1)..(Len(Content) - 1)

\* no line of the scan window is an expected header of the file's kind
NoHeaderInWindow ==
    CASE kind = "stock" ->
           \A i \in Window(Content, SearchRange) :
               /\ ~HeaderMatches(Content[i + 1], expected_header_full)
               /\ ~HeaderMatches(Content[i + 1], expected_header_no_min)
      [] kind = "eco" ->
           \A i \in Window(Content, SearchRange) :
               ~HeaderMatches(Content[i + 1], expected_header_simple)
      [] kind = "fuel" ->
           \A i \in Window(Content, SearchRangeSetup) :
               \/ IsBlank(Content[i + 1])
               \/ IsBad(Content[i + 1])
               \/ FuelCleanFields(Content[i + 1], i) #
                      HeaderTexts(expected_data_header_simple_v2)

StockColumnSet ==
    {"Codigo", "Producto", "Categoria", "CantidadActual", "CostoUnitario",
     "Valor Total Item", "Ubicacion", "STOCK_MINIMO"}

FuelColumnSet ==
    {"Fecha", "Equipo/Int.", "Codigo", "Lts Ingreso", "Lts Egreso", "HsKm",
     "Comentarios", "Tipo de Comb.", "Hs/Km_Numeric", "Costo Unitario Lt",
     "Costo Total Egreso"}

BudgetKeySet ==
    {"Movilizacion", "Costos Directos", "Costos Indirectos/Generales",
     "Utilidades"}

\* a table whose column list is exactly `columns`, in every row too
HasColumns(table, columns) ==
    /\ Range(table.cols) = columns
    /\ Len(table.cols) = Cardinality(columns)
    /\ \A j \in 1..Len(table.rows) : DOMAIN table.rows[j].v = columns

\* C1: a parse that finds no expected header in the scan window ends with the
\* hard-failure marker None, which no success outcome equals (not even that
\* of a file with a header and no data rows), for each of the three parsers.
C1_MissingHeaderIsHardFailure ==
    (Done /\ NoHeaderInWindow) => result = None

\* C2: a file whose header is found and that has no data line below it ends
\* in a success outcome with the full canonical structure: the empty table of
\* the 8 stock columns, the empty table of the 11 fuel columns with the
\* balance pair, or the 4 x 2 budget grid with every cell 0.0.
C2_HeaderOnlyIsStructuredSuccess ==
    (/\ Done
     /\ header_row_index # -1
     /\ \A i \in BelowHeader : IsBlank(Content[i + 1]))
    => CASE kind = "stock" ->
              /\ result.tag = "DataFrame"
              /\ result.df.rows = <<>>
              /\ HasColumns(result.df, StockColumnSet)
         [] kind = "eco" ->
              /\ result.tag = "dict"
              /\ DOMAIN result.grid = {"invierno", "verano"}
              /\ \A season \in DOMAIN result.grid :
                    /\ DOMAIN result.grid[season] = BudgetKeySet
                    /\ \A key \in BudgetKeySet : result.grid[season][key] = Zero
         [] kind = "fuel" ->
              /\ result.tag = "tuple"
              /\ result.df.rows = <<>>
              /\ HasColumns(result.df, FuelColumnSet)
              /\ DOMAIN result.stock = {"GASOIL", "NAFTA"}

\* a fuel file with a balance directive, the header and only a blank line
\* below it has been parsed
C2_Witness ==
    /\ Done
    /\ kind = "fuel"
    /\ header_row_index = 1
    /\ Len(Content) = 3
    /\ IsBlank(Content[3])
    /\ result.tag = "tuple"
    /\ result.stock.GASOIL = Fin(500, 0)

\* C3: every table parse_stock_visma returns has exactly the 8 canonical
\* stock columns and every table parse_fuel_log returns has exactly the 11
\* canonical fuel columns, on every return path.
C3_CanonicalColumns ==
    Done =>
        /\ (kind = "stock" /\ result.tag = "DataFrame")
              => HasColumns(result.df, StockColumnSet)
        /\ (kind = "fuel" /\ result.tag = "tuple")
              => HasColumns(result.df, FuelColumnSet)

\* a fuel file with the header and two complete lines has been parsed: two
\* records under the 11 columns
C3_Witness ==
    /\ Done
    /\ kind = "fuel"
    /\ result.tag = "tuple"
    /\ Len(result.df.rows) = 2

\* the field at position k of a tokenized line, '' when the line is shorter
FieldOr(fields, k) ==
    IF k <= Len(fields) THEN fields[k] ELSE <<>>

\* the data lines of a stock file whose Codigo and Categoria are both
\* non-empty after trimming
StockValidLines ==
    {i \in BelowHeader :
        /\ ~IsBlank(Content[i + 1])
        /\ ~IsBad(Content[i + 1])
        /\ Strip(FieldOr(CsvFields(Content[i + 1]), 1)) # <<>>
        /\ Strip(FieldOr(CsvFields(Content[i + 1]), 3)) # <<>>}

\* C4: the rows of the stock table are exactly the data rows whose Codigo and
\* Categoria are both non-empty after trimming, once each and in file order.
C4_StockRowKeptIffCodigoAndCategoria ==
    (Done /\ kind = "stock" /\ result.tag = "DataFrame") =>
        /\ {result.df.rows[j].line : j \in 1..Len(result.df.rows)} = StockValidLines
        /\ \A j \in 1..(Len(result.df.rows) - 1) :
              result.df.rows[j].line < result.df.rows[j + 1].line

\* a stock file with the header, a row with a blank Codigo (dropped) and a
\* short row with Codigo and Categoria (kept) has been parsed
C4_Witness ==
    /\ Done
    /\ kind = "stock"
    /\ result.tag = "DataFrame"
    /\ Len(result.df.rows) = 1
    /\ \E i \in BelowHeader :
          /\ Len(CsvFields(Content[i + 1])) = 7
          /\ Strip(CsvFields(Content[i + 1])[1]) = <<>>
          /\ Strip(CsvFields(Content[i + 1])[3]) # <<>>
    /\ \E i \in StockValidLines : Len(CsvFields(Content[i + 1])) = 3

\* the records pandas read below the header of a fuel file
FuelSourceRecords ==
    PandasReadCsv(Content, header_row_index, expected_data_header_simple_v2).rows

\* C5: every record of the fuel table has a parsed date, a non-empty
\* equipment identifier and a non-empty fuel code, both read from its line; no
\* record comes from a line too short to carry them.
C5_FuelRecordsHaveDateEquipmentCode ==
    (Done /\ kind = "fuel" /\ result.tag = "tuple") =>
        \A j \in 1..Len(result.df.rows) :
            /\ result.df.rows[j].v["Fecha"].ok
            /\ result.df.rows[j].v["Equipo/Int."] # <<>>
            /\ result.df.rows[j].v["Codigo"] # <<>>
            /\ Len(CsvFields(Content[result.df.rows[j].line + 1])) >= 3
            /\ \E n \in 1..Len(FuelSourceRecords) :
                  /\ FuelSourceRecords[n].line = result.df.rows[j].line
                  /\ Strip(FuelSourceRecords[n].fields[2]) =
                         result.df.rows[j].v["Equipo/Int."]
                  /\ Strip(FuelSourceRecords[n].fields[3]) =
                         result.df.rows[j].v["Codigo"]

\* a fuel file with the header, a line that holds a date and nothing else and
\* a complete line has been parsed: one record
C5_Witness ==
    /\ Done
    /\ kind = "fuel"
    /\ result.tag = "tuple"
    /\ Len(result.df.rows) = 1
    /\ \E i \in BelowHeader :
          /\ Len(CsvFields(Content[i + 1])) = 1
          /\ to_datetime(CsvFields(Content[i + 1])[1]).ok

\* the data lines of a budget file that the row loop accepts
EcoAcceptedLines ==
    {i \in BelowHeader :
        /\ ~IsBlank(Content[i + 1])
        /\ ~IsBad(Content[i + 1])
        /\ Len(CsvFields(Content[i + 1])) = 3}

EcoLabel(i) ==
    Strip(CsvFields(Content[i + 1])[1])

\* the coerced value of data line i for a season
EcoValue(i, season) ==
    safe_float_parse(CsvFields(Content[i + 1])[IF season = "invierno" THEN 2 ELSE 3])

Max(S) ==
    CHOOSE x \in S : \A y \in S : x >= y

\* the sum of the values of a set of data lines, last line first
RECURSIVE EcoSum(_, _)
EcoSum(lines, season) ==
    IF lines = {} THEN Zero
    ELSE Add(EcoValue(Max(lines), season), EcoSum(lines \ {Max(lines)}, season))

BudgetLabels ==
    {<<"M", "o", "v", "i", "l", "i", "z", "a", "c", "i", "o", "n">>, <<"C", "o", "s", "t", "o", "s", "D", "i", "r", "e", "c", "t", "o", "s">>,
     <<"C", "o", "s", "t", "o", "s", "I", "n", "d", "i", "r", "e", "c", "t", "o", "s", "G", "e", "n", "e", "r", "a", "l", "e", "s">>, <<"U", "t", "i", "l", "i", "d", "a", "d", "e", "s">>}

\* C7: a budget file whose header is found ends in a grid with exactly the
\* two seasons and the four canonical keys, and the grid is the one of the
\* rows that carry one of the four labels: a row with any other label changes
\* no cell, adds no key and causes no failure.
C7_BudgetGridIsClosed ==
    (Done /\ kind = "eco" /\ header_row_index # -1) =>
        /\ result.tag = "dict"
        /\ DOMAIN result.grid = {"invierno", "verano"}
        /\ \A season \in DOMAIN result.grid :
              /\ DOMAIN result.grid[season] = BudgetKeySet
              /\ \A key \in BudgetKeySet :
                    result.grid[season][key] =
                        EcoSum({i \in EcoAcceptedLines :
                                   /\ EcoLabel(i) \in BudgetLabels
                                   /\ category_mapping_to_internal_key(EcoLabel(i)) = key},
                               season)

\* a budget file with a Movilizacion row and a row labelled Otros has been
\* parsed
C7_Witness ==
    /\ Done
    /\ kind = "eco"
    /\ result.tag = "dict"
    /\ \E i \in EcoAcceptedLines :
          EcoLabel(i) \notin BudgetLabels /\ EcoValue(i, "invierno") = Fin(7, 0)
    /\ result.grid["invierno"]["Movilizacion"] = Fin(15, 1)
    /\ result.grid["verano"]["Movilizacion"] = Fin(2, 0)

\* C8: under the 6-column header every record of the stock table has the
\* STOCK_MINIMO column, equal to 0.0, and the parse does not fail.
C8_StockMinimoDefaultsToZero ==
    (Done /\ kind = "stock" /\ detected_header_names = expected_header_no_min) =>
        /\ result.tag = "DataFrame"
        /\ \A j \in 1..Len(result.df.rows) :
              /\ "STOCK_MINIMO" \in DOMAIN result.df.rows[j].v
              /\ result.df.rows[j].v["STOCK_MINIMO"] = Zero

\* a stock file with the 6-column header and a row that has a seventh field
\* has been parsed: the row is in the table
C8_Witness ==
    /\ Done
    /\ kind = "stock"
    /\ detected_header_names = expected_header_no_min
    /\ result.tag = "DataFrame"
    /\ \E j \in 1..Len(result.df.rows) :
          /\ Len(CsvFields(Content[result.df.rows[j].line + 1])) = 7
          /\ CsvFields(Content[result.df.rows[j].line + 1])[7] # <<"0">>

\* C9: in every record of the stock table Valor Total Item is the product of
\* the record's CantidadActual and CostoUnitario, and the column is there
\* when the validity filter starts.
C9_ValorTotalItemIsProduct ==
    /\ (kind = "stock" /\ pc = "Filter") => HasCol(df, "Valor Total Item")
    /\ (Done /\ kind = "stock" /\ result.tag = "DataFrame") =>
          \A j \in 1..Len(result.df.rows) :
              result.df.rows[j].v["Valor Total Item"] =
                  Mul(result.df.rows[j].v["CantidadActual"],
                      result.df.rows[j].v["CostoUnitario"])

\* C10: in every record of the fuel table Costo Total Egreso is the product
\* of the record's Lts Egreso and Costo Unitario Lt, and Hs/Km_Numeric is the
\* coercion of the record's HsKm text.
C10_FuelDerivedColumns ==
    (Done /\ kind = "fuel" /\ result.tag = "tuple") =>
        \A j \in 1..Len(result.df.rows) :
            /\ result.df.rows[j].v["Costo Total Egreso"] =
                   Mul(result.df.rows[j].v["Lts Egreso"],
                       result.df.rows[j].v["Costo Unitario Lt"])
            /\ result.df.rows[j].v["Hs/Km_Numeric"] =
                   safe_float_parse(result.df.rows[j].v["HsKm"])

Returned ==
    cpc \in {"returned", "recoerced"}

ListedSentinels ==
    {<<"-">>, <<".">>, <<"$">>, <<"n","a","n">>, <<"#","N","/","A">>, <<"N","/","A">>, <<"#","V","A","L","U","E","!">>, <<"N","o","n","e">>}

\* the argument as text, trimmed, without '$' and ' '
CleanedUp(v) ==
    SelectSeq(Strip(v), LAMBDA c : c \notin {"$", " "})

\* C11: safe_float_parse returns a float for every argument, and 0.0 when
\* the argument is absent, empty after trimming, a listed sentinel, empty or
\* a bare sign after cleanup, or text that float() rejects.
C11_CoercionIsTotal ==
    Returned =>
        /\ value_out.k \in {"fin", "nan", "pinf", "ninf"}
        /\ (\/ IsNA(value_in)
            \/ Strip(value_in) = <<>>
            \/ Strip(value_in) \in ListedSentinels
            \/ CleanedUp(value_in) \in {<<>>, <<"+">>, <<"-">>}
            \/ ~PyFloat(value_clean).ok)
           => value_out = Zero

\* the call on 'abc', which float() rejects, has returned 0.0
C11_Witness ==
    /\ cpc = "returned"
    /\ value_in = <<"a","b","c">>
    /\ ~PyFloat(value_clean).ok
    /\ value_out = Zero

\* the position of the last c in s, 0 when there is none
LastPos(s, c) ==
    IF \E i \in 1..Len(s) : s[i] = c
    THEN CHOOSE i \in 1..Len(s) : s[i] = c /\ \A j \in (i + 1)..Len(s) : s[j] # c
    ELSE 0

\* s with every `other` dropped and every `decimal` turned into the point
WithDecimal(s, decimal, other) ==
    LET kept == SelectSeq(s, LAMBDA c : c # other)
    IN  [i \in 1..Len(kept) |-> IF kept[i] = decimal THEN "." ELSE kept[i]]

\* the argument goes through the cleanup (it is neither absent nor a sentinel)
ReachesCleanup ==
    /\ ~IsNA(value_in)
    /\ Strip(value_in) \notin ListedSentinels \cup {<<>>}

\* C12: with both ',' and '.' in the text the one whose last occurrence is
\* later is the decimal point and the other is removed, so '1.250,50' and
\* '1,250.50' both give 1250.50; with only ',' every ',' becomes the point;
\* with only '.' the text is unchanged.
C12_DecimalSeparatorRule ==
    (Returned /\ ReachesCleanup) =>
        LET s == CleanedUp(value_in)
            comma == LastPos(s, ",")
            dot == LastPos(s, ".")
        IN  /\ (comma > 0 /\ dot > 0 /\ comma > dot)
                  => value_clean = WithDecimal(s, ",", ".")
            /\ (comma > 0 /\ dot > 0 /\ dot > comma)
                  => value_clean = WithDecimal(s, ".", ",")
            /\ (comma > 0 /\ dot = 0) => value_clean = WithDecimal(s, ",", ".")
            /\ comma = 0 => value_clean = s
            /\ value_in \in {<<"1",".","2","5","0",",","5","0">>, <<"1",",","2","5","0",".","5","0">>} => value_out = Fin(12505, 1)

\* the call on '1.250,50' has returned 1250.5
C12_Witness ==
    /\ cpc = "returned"
    /\ value_in = <<"1",".","2","5","0",",","5","0">>
    /\ value_clean = <<"1","2","5","0",".","5","0">>
    /\ value_out = Fin(12505, 1)

\* text that is a sign, digits and separators, with at least one digit
WellFormedNumeric(v) ==
    /\ ~IsNA(v)
    /\ \A i \in 1..Len(Strip(v)) :
          IsDigit(Strip(v)[i]) \/ Strip(v)[i] \in {",", ".", "-", "+"}
    /\ \E i \in 1..Len(Strip(v)) : IsDigit(Strip(v)[i])

\* C13: for a well-formed numeric string x, safe_float_parse of the text of
\* safe_float_parse(x) is safe_float_parse(x).
C13_CoercionIsIdempotent ==
    (cpc = "recoerced" /\ WellFormedNumeric(value_in)) => value_back = value_out

\* '1.250,50' gave 1250.5, whose text '1250.5' gave 1250.5 again
C13_Witness ==
    /\ cpc = "recoerced"
    /\ value_in = <<"1",".","2","5","0",",","5","0">>
    /\ FloatStr(value_out) = <<"1","2","5","0",".","5">>
    /\ value_back = Fin(12505, 1)

\* the offsets of the window of a stock file whose line is the given header
StockHeaderLines(names) ==
    {i \in Window(Content, SearchRange) : HeaderMatches(Content[i + 1], names)}

StockLocated ==
    kind = "stock" /\ pc \notin {"LocateHeader", "idle"}

\* C14 as stated: the stock header is the lowest line of the window that
\* matches either candidate, with the candidate that line matches.
C14_FirstLineMatchingEitherCandidate ==
    StockLocated =>
        LET either == StockHeaderLines(expected_header_full)
                          \cup StockHeaderLines(expected_header_no_min)
        IN  IF either = {} THEN header_row_index = -1
            ELSE /\ header_row_index = Min(either)
                 /\ detected_header_names =
                        IF Min(either) \in StockHeaderLines(expected_header_full)
                        THEN expected_header_full
                        ELSE expected_header_no_min

\* C14 amended: the stock header is the lowest line of the window that
\* matches the 7-column candidate when there is one, and only otherwise the
\* lowest line that matches the 6-column candidate; not-found when neither
\* candidate matches a line.
C14_FullHeaderBeforeFallback ==
    StockLocated =>
        LET full == StockHeaderLines(expected_header_full)
            no_min == StockHeaderLines(expected_header_no_min)
        IN  /\ full # {} =>
                  /\ header_row_index = Min(full)
                  /\ detected_header_names = expected_header_full
            /\ (full = {} /\ no_min # {}) =>
                  /\ header_row_index = Min(no_min)
                  /\ detected_header_names = expected_header_no_min
            /\ (full = {} /\ no_min = {}) => header_row_index = -1

\* the 6-column header stands above the 7-column header and the 7-column one
\* was taken
C14_Witness ==
    /\ StockLocated
    /\ 0 \in StockHeaderLines(expected_header_no_min)
    /\ 1 \in StockHeaderLines(expected_header_full)
    /\ header_row_index = 1
    /\ detected_header_names = expected_header_full


Located ==
    pc \notin {"LocateHeader", "idle"}

Candidates(k) ==
    CASE k = "stock" -> {expected_header_full, expected_header_no_min}
      [] k = "eco" -> {expected_header_simple}
      [] k = "fuel" -> {expected_data_header_simple_v2}

\* a field as the header comparison sees it at most: trimmed, marker aside
Bare(field) ==
    Strip(Remove(Strip(field), BOM))

ExactlyCandidate(line, names) ==
    [k \in 1..Len(line) |-> Bare(line[k])] = HeaderTexts(names)

Completed ==
    IF pc = "done"
    THEN Append(calls, [kind |-> kind, file |-> file, result |-> result])
    ELSE calls

NoDirective(f) ==
    \A i \in 0..(Len(f) - 1) : ~IsSetupLine(f, i)

\* the records of a fuel result that carry a mapped fuel type
MappedRecords(r) ==
    {i \in 1..Len(r.df.rows) :
        r.df.rows[i].v["Tipo de Comb."]
            # Desconocido}

\* C16: parsing is deterministic and free of hidden state: the same parser
\* called twice on the same bytes, with any other parser calls in between,
\* returns identical outcomes, and the balances and the code mapping read
\* from one fuel file never show in the outcome of another file.
C16_SameBytesSameOutcome ==
    /\ \A i, j \in 1..Len(Completed) :
          (Completed[i].kind = Completed[j].kind
              /\ Completed[i].file = Completed[j].file)
              => Completed[i].result = Completed[j].result
    /\ \A j \in 1..Len(Completed) :
          (Completed[j].kind = "fuel" /\ NoDirective(Completed[j].file))
              => /\ Completed[j].result.stock = [GASOIL |-> Zero, NAFTA |-> Zero]
                 /\ MappedRecords(Completed[j].result) = {}

\* a fuel file without directives parsed before and after a fuel file whose
\* directives set a balance and map the code its record uses
C16_Witness ==
    /\ Len(Completed) = 3
    /\ Completed[1].kind = "fuel" /\ Completed[3].kind = "fuel"
    /\ Completed[1].file = Completed[3].file
    /\ NoDirective(Completed[1].file)
    /\ Len(Completed[1].result.df.rows) = 1
    /\ Completed[2].kind = "fuel"
    /\ Completed[2].result.stock.GASOIL # Zero
    /\ MappedRecords(Completed[2].result) # {}
    /\ Completed[3].result = Completed[1].result


HasInvalidByte(lines) ==
    \E i \in 1..Len(lines) : \E k \in 1..Len(lines[i]) :
        Has(lines[i][k], InvalidByte)

HasBadLine(lines) ==
    \E i \in 1..Len(lines) : IsBad(lines[i])

\* C17: no parser lets an exception escape: for every content, bytes that are
\* no valid UTF-8 and lines that cannot be tokenized included, what the
\* parser returns is a structured result or the hard-failure marker; the
\* marker is returned for a missing header only, never because of an invalid
\* byte or an unreadable line, and an invalid byte reaches the output as the
\* replacement character.
C17_NoExceptionEscapes ==
    /\ pc \in {"LocateHeader", "Materialize", "Normalize", "Derive", "Filter",
               "Emit", "done"}
    /\ Done =>
          /\ result.tag \in {"None", "DataFrame", "dict", "tuple"}
          /\ result.tag = "None" => (kind \in {"stock", "eco"} /\ NoHeaderInWindow)
          /\ (kind = "stock" /\ result.tag = "DataFrame") =>
                \A j \in 1..Len(result.df.rows) :
                    result.df.rows[j].v["Codigo"] =
                        Strip(Replace(file[result.df.rows[j].line + 1 - pad][1],
                                      InvalidByte, ReplacementChar))

\* a stock file with an unreadable line and a row with an invalid byte in its
\* code has been parsed into a table that holds the row
C17_Witness ==
    /\ Done
    /\ kind = "stock"
    /\ HasInvalidByte(file)
    /\ HasBadLine(file)
    /\ result.tag = "DataFrame"
    /\ \E j \in 1..Len(result.df.rows) :
          Has(result.df.rows[j].v["Codigo"], ReplacementChar)


\* the offsets of the lines above the data header that are MAPEO CODIGO
\* directives for the fuel code `code`
MappingDirectives(code) ==
    {i \in 0..(header_row_index - 1) :
        LET f == Content[i + 1]
        IN  /\ Len(f) >= 4
            /\ Upper(Bare(f[1])) = <<"S","E","T","U","P">>
            /\ Upper(Bare(f[2])) = <<"M","A","P","E","O"," ","C","O","D","I","G","O">>
            /\ Bare(f[3]) = code
            /\ Bare(f[3]) # <<>>
            /\ Bare(f[4]) # <<>>}

\* C18: every record of the fuel table carries in Tipo de Comb. the label of
\* the last MAPEO CODIGO directive above the data header of the same file for
\* the record's trimmed fuel code, and the fixed unknown label when no such
\* directive exists.
C18_FuelTypeFollowsDirectives ==
    (Done /\ kind = "fuel" /\ result.tag = "tuple") =>
        \A j \in 1..Len(result.df.rows) :
            LET code == result.df.rows[j].v["Codigo"]
                label == result.df.rows[j].v["Tipo de Comb."]
            IN  /\ \E n \in 1..Len(FuelSourceRecords) :
                      /\ FuelSourceRecords[n].line = result.df.rows[j].line
                      /\ Strip(FuelSourceRecords[n].fields[3]) = code
                /\ IF MappingDirectives(code) = {}
                   THEN label = <<"D","e","s","c","o","n","o","c","i","d","o">>
                   ELSE label = Bare(Content[Max(MappingDirectives(code)) + 1][4])

\* a fuel file with a directive for the code of its one record
C18_Witness ==
    /\ Done
    /\ kind = "fuel"
    /\ result.tag = "tuple"
    /\ \E j \in 1..Len(result.df.rows) :
          /\ MappingDirectives(result.df.rows[j].v["Codigo"]) # {}
          /\ result.df.rows[j].v["Tipo de Comb."] = <<"G","A","S","O","I","L">>

\* a fuel record whose code no directive above the header maps, in a file
\* that has a directive for the code below the header
C18_WitnessUnmapped ==
    /\ Done
    /\ kind = "fuel"
    /\ result.tag = "tuple"
    /\ \E i \in BelowHeader : Len(Content[i + 1]) = 4
    /\ \E j \in 1..Len(result.df.rows) :
          /\ MappingDirectives(result.df.rows[j].v["Codigo"]) = {}
          /\ result.df.rows[j].v["Tipo de Comb."] =
                 <<"D","e","s","c","o","n","o","c","i","d","o">>


StageRank(stage) ==
    CASE stage = "LocateHeader" -> 1
      [] stage = "Materialize" -> 2
      [] stage = "Normalize" -> 3
      [] stage = "Derive" -> 4
      [] stage = "Filter" -> 5
      [] stage = "Emit" -> 6
      [] stage = "done" -> 7

HardFailure ==
    result = None

\* the budget grid counts as a table that is empty when all its cells are zero
Populated ==
    \/ result.tag \in {"DataFrame", "tuple"} /\ result.df.rows # <<>>
    \/ result.tag = "dict" /\ result.grid # zeroed_eco_data_structure

EmptyButStructured ==
    \/ result.tag \in {"DataFrame", "tuple"} /\ result.df.rows = <<>>
    \/ result.tag = "dict" /\ result.grid = zeroed_eco_data_structure

\* the data lines of a fuel file that hold a date, an equipment and a code
FuelGoodLines ==
    {i \in BelowHeader :
        /\ ~IsBlank(Content[i + 1])
        /\ ~HasBadLine(<<Content[i + 1]>>)
        /\ Len(Content[i + 1]) >= 3
        /\ to_datetime(Content[i + 1][1]).ok
        /\ Bare(Content[i + 1][2]) # <<>>
        /\ Bare(Content[i + 1][3]) # <<>>}

\* no row is lost to the failure of another row
RowFailureIsLocal ==
    /\ ~HardFailure
    /\ kind = "stock" =>
          StockValidLines \subseteq
              {result.df.rows[j].line : j \in 1..Len(result.df.rows)}
    /\ kind = "fuel" =>
          FuelGoodLines \subseteq
              {result.df.rows[j].line : j \in 1..Len(result.df.rows)}

\* C19: a parse is a linear pipeline that never goes back to a stage: every
\* step leads to a later stage of LocateHeader, Materialize, Normalize, Derive,
\* Filter, Emit or to the return; a run that has returned is in exactly one of
\* hard-failure, empty-but-structured table and populated table; a run that
\* finds no header goes from LocateHeader straight to hard-failure; and once
\* the header is located, a data row that fails neither makes the run a hard
\* failure nor costs the other rows their place in the result.
C19_LinearPipelineWithLocalRowFailures ==
    /\ [][StageRank(pc') > StageRank(pc)]_pc
    /\ [](Done => \/ HardFailure /\ ~EmptyButStructured /\ ~Populated
                  \/ ~HardFailure /\ EmptyButStructured /\ ~Populated
                  \/ ~HardFailure /\ ~EmptyButStructured /\ Populated)
    /\ [][(pc = "LocateHeader" /\ NoHeaderInWindow)
              => (pc' = "done" /\ result' = None)]_pc
    /\ []((Done /\ ~NoHeaderInWindow) => RowFailureIsLocal)

\* the parts of C19 that concern the order of the stages and the end of a run
C19_StagesInOrder ==
    /\ [][StageRank(pc') > StageRank(pc)]_pc
    /\ [](Done => \/ HardFailure /\ ~EmptyButStructured /\ ~Populated
                  \/ ~HardFailure /\ EmptyButStructured /\ ~Populated
                  \/ ~HardFailure /\ ~EmptyButStructured /\ Populated)

\* C19 for the stock parser, the failing parts included
C19_StockRunsAsClaimed ==
    kind = "stock" =>
        /\ (Done /\ NoHeaderInWindow) => HardFailure
        /\ (Done /\ ~NoHeaderInWindow) => RowFailureIsLocal

\* a fuel run that ended empty below a located header with a good data line
C19_FuelRowsLost ==
    /\ Done
    /\ kind = "fuel"
    /\ ~NoHeaderInWindow
    /\ FuelGoodLines # {}
    /\ result.df.rows = <<>>


\* the data lines of a fuel file with more tokens than the header has names
FuelLongLines ==
    {i \in BelowHeader :
        Len(Content[i + 1]) > Len(expected_data_header_simple_v2)}

C20_HoldsWithoutLongLines ==
    (Done /\ kind = "fuel" /\ header_row_index # -1 /\ FuelLongLines = {}) =>
        /\ result.tag = "tuple"
        /\ FuelGoodLines =
               {result.df.rows[j].line : j \in 1..Len(result.df.rows)}

\* a long line right below the header is lost itself
C20_LongFirstLineLost ==
    /\ Done
    /\ kind = "fuel"
    /\ header_row_index = 0
    /\ Len(Content) = 2
    /\ FuelLongLines = {1}
    /\ FuelGoodLines = {1}
    /\ result.df.rows = <<>>

\* a long line further down costs the lines above it their place
C20_LongLaterLineLosesAll ==
    /\ Done
    /\ kind = "fuel"
    /\ header_row_index = 0
    /\ FuelLongLines = {2}
    /\ FuelGoodLines = {1, 2}
    /\ result.df.rows = <<>>


\* the stock lines below the header that are not blank and can be tokenized
StockRawLines ==
    {i \in BelowHeader : ~IsBlank(Content[i + 1]) /\ ~IsBad(Content[i + 1])}

\* parse_stock_visma has collected its raw rows and built the table of them
StockRowsCollected ==
    kind = "stock" /\ pc = "Normalize"

\* C21: the raw rows of parse_stock_visma are one per non-blank tokenizable
\* line below the header, in file order, each with exactly one field per
\* header column: the tokens of the line, with empty strings after the last
\* token of a short line and without the tokens beyond the header's length
\* of a long line.
C21_RawRowsHaveHeaderWidth ==
    StockRowsCollected =>
        /\ df.cols = detected_header_names
        /\ {df.rows[j].line : j \in 1..Len(df.rows)} = StockRawLines
        /\ Len(df.rows) = Cardinality(StockRawLines)
        /\ \A j \in 1..(Len(df.rows) - 1) : df.rows[j].line < df.rows[j + 1].line
        /\ \A j \in 1..Len(df.rows) :
              /\ DOMAIN df.rows[j].v = Range(detected_header_names)
              /\ \A k \in 1..Len(detected_header_names) :
                    df.rows[j].v[detected_header_names[k]] =
                        FieldOr(CsvFields(Content[df.rows[j].line + 1]), k)

\* under the 7-column header a 3-token line was padded and an 8-token line
\* was cut
C21_Witness ==
    /\ StockRowsCollected
    /\ detected_header_names = expected_header_no_min
    /\ \E i \in StockRawLines : Len(CsvFields(Content[i + 1])) = 3
    /\ \E i \in StockRawLines : Len(CsvFields(Content[i + 1])) = 8
    /\ Len(df.rows) = 2

\* a line with a carriage return next to a short line: only the short line
\* gave a row
C21_WitnessSkipped ==
    /\ StockRowsCollected
    /\ \E i \in BelowHeader : IsBad(Content[i + 1])
    /\ Len(df.rows) = 1
    /\ \E i \in StockRawLines : Len(CsvFields(Content[i + 1])) = 6


\* the budget lines below the header whose token count is not 3
EcoMiscountedLines ==
    {i \in BelowHeader :
        /\ ~IsBlank(Content[i + 1])
        /\ ~IsBad(Content[i + 1])
        /\ Len(CsvFields(Content[i + 1])) # 3}

\* the lines of the file without the lines of EcoMiscountedLines
EcoWithoutMiscounted ==
    LET kept[i \in 0..Len(Content)] ==
            IF i = 0 THEN <<>>
            ELSE IF (i - 1) \in EcoMiscountedLines THEN kept[i - 1]
            ELSE Append(kept[i - 1], Content[i])
    IN  kept[Len(Content)]

\* C22: a budget data line whose token count is not 3 is skipped.  It gives
\* no raw row, padded or cut; the raw rows are the 3-token lines with their
\* own tokens; and the returned grid is the grid of the same file without
\* the miscounted lines, so the other lines are processed as if it were absent.
C22_MiscountedBudgetLineIsSkipped ==
    /\ (kind = "eco" /\ pc = "Normalize") =>
          /\ {df.rows[j].line : j \in 1..Len(df.rows)} = EcoAcceptedLines
          /\ \A j \in 1..Len(df.rows) : \A k \in 1..3 :
                df.rows[j].v[expected_header_simple[k]] =
                    CsvFields(Content[df.rows[j].line + 1])[k]
    /\ (Done /\ kind = "eco" /\ result.tag = "dict") =>
          result.grid = EcoGrid(EcoWithoutMiscounted, header_row_index)

\* a file with the header, a 2-token and a 3-token CostosDirectos line has
\* been parsed: only the 3-token line counts
C22_Witness ==
    /\ Done
    /\ kind = "eco"
    /\ result.tag = "dict"
    /\ \E i \in EcoMiscountedLines : Len(CsvFields(Content[i + 1])) = 2
    /\ Cardinality(EcoAcceptedLines) = 1
    /\ result.grid["invierno"]["Costos Directos"] = Fin(100, 0)

\* the same with a 4-token line
C22_WitnessLong ==
    /\ Done
    /\ kind = "eco"
    /\ result.tag = "dict"
    /\ \E i \in EcoMiscountedLines : Len(CsvFields(Content[i + 1])) = 4
    /\ Cardinality(EcoAcceptedLines) = 1
    /\ result.grid["invierno"]["Costos Directos"] = Fin(100, 0)


\* the offsets of the lines that are a header of the file's kind, wherever
\* they stand
HeaderOffsets ==
    {i \in 0..(Len(Content) - 1) :
        CASE kind = "stock" ->
               \/ HeaderMatches(Content[i + 1], expected_header_full)
               \/ HeaderMatches(Content[i + 1], expected_header_no_min)
          [] kind = "eco" -> HeaderMatches(Content[i + 1], expected_header_simple)
          [] kind = "fuel" -> IsDataHeader(Content, i)}

\* the window the claim gives each file kind
ClaimedWindow ==
    IF kind = "fuel" THEN 100 ELSE 50

\* the headers among the first ClaimedWindow lines, blank lines counted
HeadersInWindow ==
    {i \in HeaderOffsets : i < ClaimedWindow}

\* the GASOIL balance directives among the first ClaimedWindow lines that
\* stand above the first header of the window
DirectivesInWindow ==
    {i \in 0..(Len(Content) - 1) :
        /\ i < ClaimedWindow
        /\ \A h \in HeadersInWindow : i < h
        /\ IsSetupLine(Content, i)
        /\ Len(CsvFields(Content[i + 1])) = 3
        /\ Upper(Strip(CsvFields(Content[i + 1])[2])) =
               <<"S","A","L","D","O"," ","I","N","I","C","I","A","L"," ","G","A","S","O","I","L">>}

\* C23: the header and directive scans read only the first 50 (stock,
\* budget) or 100 (fuel log) lines of the file, blank lines counted.  The
\* header found is one of that window; when every header line stands at or
\* beyond the window the scan ends not-found and the parse goes no further;
\* and a balance directive is read only inside the window.
C23_ScansStopAtWindow ==
    (pc # "LocateHeader") =>
        /\ header_row_index \in HeadersInWindow \cup {-1}
        /\ header_row_index = -1 <=> HeadersInWindow = {}
        /\ HeadersInWindow = {} =>
              /\ Done
              /\ detected_header_names = <<>>
              /\ kind # "fuel" => result = None
        /\ kind = "fuel" =>
              /\ scan.data_header_index = header_row_index
              /\ scan.saldo_gasoil =
                     IF DirectivesInWindow = {} THEN Zero
                     ELSE safe_float_parse(<<"5","0","0",".","0","0">>)

\* a stock header at offset 50 behind 49 filler lines and a blank line is not
\* found
C23_Witness ==
    /\ Done
    /\ kind = "stock"
    /\ pad = 49
    /\ Len(file) = 2
    /\ IsBlank(Content[50])
    /\ HeaderOffsets = {50}
    /\ header_row_index = -1
    /\ result = None

\* a stock header at offset 49, the last line of the window, is found
C23_WitnessInside ==
    /\ kind = "stock"
    /\ pc = "Materialize"
    /\ HeaderOffsets = {49}
    /\ header_row_index = 49

\* in a fuel log the directive at offset 99 is read and the header at offset
\* 100 is not found
C23_WitnessFuel ==
    /\ Done
    /\ kind = "fuel"
    /\ HeaderOffsets = {100}
    /\ DirectivesInWindow = {99}
    /\ header_row_index = -1
    /\ scan.saldo_gasoil = safe_float_parse(<<"5","0","0",".","0","0">>)

\* a fuel directive at offset 100 is not read
C23_WitnessDirectiveOutside ==
    /\ Done
    /\ kind = "fuel"
    /\ pad = 100
    /\ Len(file) = 1
    /\ IsSetupLine(Content, 100)
    /\ scan.saldo_gasoil = Zero


\* the expected headers of the file's kind as lines of text
CandidateLines ==
    {HeaderTexts(names) : names \in Candidates(kind)}

\* line is an expected header behind a byte-order marker, its first field
\* with or without whitespace around it
MarkedHeader(line) ==
    \E h \in CandidateLines : line \in {Marked(h), MarkedSpaced(h)}

\* C24: a first line that is the expected header behind a byte-order marker,
\* with or without whitespace around its first field, is detected as the
\* header at offset 0 by the stock and budget scan and by the fuel-log scan
\* alike; the marker is not stripped on another line, so such a line further
\* down is not detected.
C24_MarkerStrippedOnFirstLineOnly ==
    Located =>
        /\ (Content # <<>> /\ MarkedHeader(Content[1])) => header_row_index = 0
        /\ \A i \in 1..(Len(Content) - 1) :
              MarkedHeader(Content[i + 1]) => header_row_index # i

\* C24 as the fuel-log scan does it
C24_FuelScanAsClaimed ==
    (Located /\ kind = "fuel") =>
        /\ (Content # <<>> /\ MarkedHeader(Content[1])) => header_row_index = 0
        /\ \A i \in 1..(Len(Content) - 1) :
              MarkedHeader(Content[i + 1]) => header_row_index # i

\* the marker right before the first name is stripped on the first line by
\* every scan
C24_MarkerBeforeNameIsStripped ==
    (Located /\ Content # <<>>
        /\ \E h \in CandidateLines : Content[1] = Marked(h))
    => header_row_index = 0

\* find_header_row misses a first line with whitespace between the marker
\* and the first name
C24_SpacedMarkerMissed ==
    /\ Done
    /\ kind \in {"stock", "eco"}
    /\ Len(Content) = 1
    /\ \E h \in CandidateLines : Content[1] = MarkedSpaced(h)
    /\ header_row_index = -1
    /\ result = None

\* find_header_row strips the marker on the second line
C24_MarkerStrippedBelow ==
    /\ Located
    /\ kind \in {"stock", "eco"}
    /\ Len(Content) = 2
    /\ Content[1] = JunkLine
    /\ \E h \in CandidateLines : Content[2] = Marked(h)
    /\ header_row_index = 1


\* the SETUP lines of a fuel file above its data header, and below it
DirectivesAbove ==
    {i \in 0..(header_row_index - 1) : IsSetupLine(Content, i)}

DirectivesBelow ==
    {i \in BelowHeader : IsSetupLine(Content, i)}

\* the file up to and including its data header
UpToHeader ==
    SubSeq(Content, 1, header_row_index + 1)

\* C25: the fuel-log scan stops at the data header.  The balances and the
\* code mapping after the scan are those of the file cut right after the
\* header, so a SETUP directive below the header changes none of them; and a
\* file with a header and no directive above it gives a table with both
\* balances 0.0 and an empty mapping.
C25_ScanStopsAtDataHeader ==
    (kind = "fuel" /\ Located /\ header_row_index # -1) =>
        /\ scan = FuelScan(UpToHeader)
        /\ DirectivesAbove = {} =>
              /\ scan.saldo_gasoil = Zero
              /\ scan.saldo_nafta = Zero
              /\ scan.fuel_type_mapping = {}
        /\ Done =>
              /\ result.tag = "tuple"
              /\ result.stock = [GASOIL |-> scan.saldo_gasoil,
                                 NAFTA |-> scan.saldo_nafta]
              /\ DirectivesAbove = {} =>
                    \A j \in 1..Len(result.df.rows) :
                        result.df.rows[j].v["Tipo de Comb."] = Desconocido

\* header, then a GASOIL balance directive, then a record: the balance stays
\* 0.0 and the record is returned
C25_Witness ==
    /\ Done
    /\ kind = "fuel"
    /\ header_row_index = 0
    /\ \E i \in DirectivesBelow :
          Upper(Content[i + 1][2]) = <<"S","A","L","D","O"," ","I","N","I","C","I","A","L"," ","G","A","S","O","I","L">>
    /\ result.tag = "tuple"
    /\ result.stock.GASOIL = Zero
    /\ Len(result.df.rows) = 1

\* header, then a mapping directive for code 001, then a record with code
\* 001: its fuel type is unknown
C25_WitnessMapping ==
    /\ Done
    /\ kind = "fuel"
    /\ header_row_index = 0
    /\ \E i \in DirectivesBelow : Len(Content[i + 1]) = 4
    /\ scan.fuel_type_mapping = {}
    /\ Len(result.df.rows) = 1
    /\ result.df.rows[1].v["Codigo"] = <<"0","0","1">>
    /\ result.df.rows[1].v["Tipo de Comb."] = Desconocido


\* where the fuel-log scan ended: at the data header, else at the end of the
\* file (the files of these runs are shorter than the window)
ScanEnd ==
    IF header_row_index = -1 THEN Len(Content) ELSE header_row_index

\* the balance directives of one fuel above the scan's end: first field SETUP
\* and second field SALDO INICIAL <fuel>, both in any letter case
BalanceDirectives(fuel) ==
    {i \in 0..(ScanEnd - 1) :
        LET f == Content[i + 1]
        IN  /\ Len(f) >= 2
            /\ Upper(Strip(f[1])) = <<"S","E","T","U","P">>
            /\ Upper(Strip(f[2])) =
                   <<"S","A","L","D","O"," ","I","N","I","C","I","A","L"," ">> \o fuel}

\* those of them that have a third field
ValuedBalanceDirectives(fuel) ==
    {i \in BalanceDirectives(fuel) : Len(Content[i + 1]) >= 3}

\* the balance the scan holds for a fuel
Balance(fuel) ==
    IF fuel = <<"G","A","S","O","I","L">> THEN scan.saldo_gasoil ELSE scan.saldo_nafta

Fuels ==
    {<<"G","A","S","O","I","L">>, <<"N","A","F","T","A">>}

\* the lines of the file that are no balance directive
WithoutBalanceDirectives ==
    LET kept[i \in 0..Len(Content)] ==
            IF i = 0 THEN <<>>
            ELSE IF \E fuel \in Fuels : (i - 1) \in BalanceDirectives(fuel)
                 THEN kept[i - 1]
            ELSE Append(kept[i - 1], Content[i])
    IN  kept[Len(Content)]

\* C26 as claimed: each balance is the coercion of the third field of the
\* last directive of its fuel above the data header, and 0.0 when there is
\* no such directive or when that directive has no third field.
C26_BalanceOfLastDirective ==
    (kind = "fuel" /\ Located) =>
        \A fuel \in Fuels :
            Balance(fuel) =
                IF BalanceDirectives(fuel) = {} THEN Zero
                ELSE IF Len(Content[Max(BalanceDirectives(fuel)) + 1]) < 3 THEN Zero
                ELSE safe_float_parse(Strip(Content[Max(BalanceDirectives(fuel)) + 1][3]))

\* C26, amended: each balance is the coercion of the trimmed third field of
\* the last directive of its fuel above the data header that has a third
\* field, and 0.0 when no directive of its fuel has one; SETUP and the
\* directive name are matched in any letter case; the code mapping is that of
\* the file without its balance directives, and a balance follows the
\* directives of its own fuel only.
C26_BalanceOfLastValuedDirective ==
    (kind = "fuel" /\ Located) =>
        /\ \A fuel \in Fuels :
              Balance(fuel) =
                  IF ValuedBalanceDirectives(fuel) = {} THEN Zero
                  ELSE safe_float_parse(
                           Strip(Content[Max(ValuedBalanceDirectives(fuel)) + 1][3]))
        /\ scan.fuel_type_mapping = FuelScan(WithoutBalanceDirectives).fuel_type_mapping
        /\ Done => /\ result.tag = "tuple"
                   /\ result.stock.GASOIL = Balance(<<"G","A","S","O","I","L">>)
                   /\ result.stock.NAFTA = Balance(<<"N","A","F","T","A">>)

\* two GASOIL directives and a lower-case NAFTA one above the scan's end: the
\* later GASOIL value 7 and the NAFTA value 20 are the balances
C26_Witness ==
    /\ Done
    /\ kind = "fuel"
    /\ Cardinality(ValuedBalanceDirectives(<<"G","A","S","O","I","L">>)) = 2
    /\ \E i \in ValuedBalanceDirectives(<<"N","A","F","T","A">>) :
          Content[i + 1][1] = <<"s","e","t","u","p">>
    /\ result.tag = "tuple"
    /\ result.stock.GASOIL = Fin(7, 0)
    /\ result.stock.NAFTA = Fin(20, 0)

\* a GASOIL directive with the value 500.00, then one without a third field,
\* then the header: the balance is 500.0
C26_ValueKept ==
    /\ Done
    /\ kind = "fuel"
    /\ header_row_index = 2
    /\ BalanceDirectives(<<"G","A","S","O","I","L">>) = {0, 1}
    /\ ValuedBalanceDirectives(<<"G","A","S","O","I","L">>) = {0}
    /\ result.tag = "tuple"
    /\ result.stock.GASOIL = safe_float_parse(<<"5","0","0",".","0","0">>)
    /\ result.stock.GASOIL # Zero


\* the MAPEO CODIGO directives above the scan's end
MapeoDirectives ==
    {i \in 0..(ScanEnd - 1) :
        LET f == Content[i + 1]
        IN  /\ Len(f) >= 2
            /\ Upper(Strip(f[1])) = <<"S","E","T","U","P">>
            /\ Upper(Strip(f[2])) = <<"M","A","P","E","O"," ","C","O","D","I","G","O">>}

\* those with a code and a label that are not empty after trimming
CompleteMapeoDirectives ==
    {i \in MapeoDirectives :
        /\ Len(Content[i + 1]) >= 4
        /\ Strip(Content[i + 1][3]) # <<>>
        /\ Strip(Content[i + 1][4]) # <<>>}

\* C27: the code mapping after the scan holds exactly the pairs (trimmed code,
\* trimmed label) of the MAPEO CODIGO directives above the data header whose
\* code and label are both non-empty, the last directive of a code standing
\* for it; a directive with an empty or missing code or label adds nothing,
\* and the scan goes on behind it: the directives after it are read and the
\* first header line of the file is found.
C27_MappingNeedsCodeAndLabel ==
    (kind = "fuel" /\ Located) =>
        /\ scan.fuel_type_mapping =
               {<<Strip(Content[i + 1][3]), Strip(Content[i + 1][4])>> :
                   i \in {n \in CompleteMapeoDirectives :
                             \A m \in CompleteMapeoDirectives :
                                 Strip(Content[m + 1][3]) = Strip(Content[n + 1][3])
                                     => m <= n}}
        /\ header_row_index =
               IF \E i \in 0..(Len(Content) - 1) : IsDataHeader(Content, i)
               THEN Min({i \in 0..(Len(Content) - 1) : IsDataHeader(Content, i)})
               ELSE -1

\* a directive with an empty code, then a complete one for code 001, then
\* the header: one pair, and the header found at offset 2
C27_Witness ==
    /\ kind = "fuel"
    /\ Located
    /\ header_row_index = 2
    /\ 0 \in MapeoDirectives \ CompleteMapeoDirectives
    /\ Len(Content[1]) = 4
    /\ Strip(Content[1][3]) = <<>>
    /\ CompleteMapeoDirectives = {1}
    /\ scan.fuel_type_mapping = {<<<<"0","0","1">>, <<"G","A","S","O","I","L">>>>}

\* only directives with an empty label, a missing label and a missing code:
\* the mapping stays empty
C27_WitnessNothingAdded ==
    /\ kind = "fuel"
    /\ Done
    /\ Cardinality(MapeoDirectives) = 3
    /\ \E i \in MapeoDirectives : Len(Content[i + 1]) = 4 /\ Content[i + 1][4] = <<>>
    /\ \E i \in MapeoDirectives : Len(Content[i + 1]) = 3
    /\ \E i \in MapeoDirectives : Len(Content[i + 1]) = 2
    /\ CompleteMapeoDirectives = {}
    /\ scan.fuel_type_mapping = {}

\* two complete directives for code 001: the trimmed label of the later one
\* stands
C27_WitnessLastWins ==
    /\ kind = "fuel"
    /\ Located
    /\ CompleteMapeoDirectives = {0, 1}
    /\ Content[2][4] = <<" ","N","a","f","t","a"," ">>
    /\ scan.fuel_type_mapping = {<<<<"0","0","1">>, <<"N","a","f","t","a">>>>}


\* a script run has ended
RunEnded ==
    run = "idle"

\* the uploader of kind k holds a file with a header line of its kind
FileHasHeader(k) ==
    /\ uploader[k] # None
    /\ \E i \in 1..Len(uploader[k].lines) : \E names \in Candidates(k) :
          HeaderMatches(uploader[k].lines[i], names)

\* the three situations of a file kind
NoFile(k) ==
    uploader[k] = None

FileFailed(k) ==
    uploader[k] # None /\ ~FileHasHeader(k)

FileUnderstoodEmpty(k) ==
    /\ FileHasHeader(k)
    /\ Len(uploader[k].lines) = 1

\* C28: what the tabs receive keeps apart, for each file kind, no file, a
\* file that failed and a file understood with zero usable rows: after any
\* uploads, removals and reruns the data shown for a failed file, and for no
\* file, is not the data shown for a file understood with zero rows.
C28_ViewKeepsSituationsApart ==
    RunEnded =>
        \A k \in Kinds :
            /\ FileFailed(k) => view[k] # RetrievalDefault(k)
            /\ NoFile(k) => view[k] # RetrievalDefault(k)
            /\ FileUnderstoodEmpty(k) => view[k] = RetrievalDefault(k)

\* what st.session_state holds does keep a failed stock or budget file apart
\* from one understood with zero rows, and from no file by the stored id
C28_StoredDataKeepsApart ==
    RunEnded =>
        \A k \in {"stock", "eco"} :
            /\ FileFailed(k) =>
                  /\ session_state[k].data = None
                  /\ session_state[k].last_file_id # None
            /\ NoFile(k) =>
                  /\ session_state[k].data = None
                  /\ session_state[k].last_file_id = None
            /\ FileUnderstoodEmpty(k) => session_state[k].data = RetrievalDefault(k)

\* a stock file without header is shown as an empty table
C28_FailureShownAsEmpty ==
    /\ RunEnded
    /\ FileFailed("stock")
    /\ session_state["stock"].data = None
    /\ view["stock"] = StockResult(EmptyFrame(final_cols_order_template))

\* and so is a stock file with the header only
C28_EmptyShownAsEmpty ==
    /\ RunEnded
    /\ FileUnderstoodEmpty("stock")
    /\ session_state["stock"].data # None
    /\ view["stock"] = StockResult(EmptyFrame(final_cols_order_template))

\* and so is the stock uploader without a file
C28_NoFileShownAsEmpty ==
    /\ RunEnded
    /\ NoFile("stock")
    /\ events = 2
    /\ view["stock"] = StockResult(EmptyFrame(final_cols_order_template))


\* C29: at the end of every script run, after any uploads, replacements and
\* removals, the stored result of each file kind is None when its uploader is
\* empty and else the outcome of parsing the content now in the uploader: it
\* was parsed from these very lines, so a replacement by a file of another
\* content has been followed by a parse.
C29_StoredResultIsOfCurrentFile ==
    RunEnded =>
        \A k \in Kinds :
            /\ NoFile(k) => session_state[k].data = None
            /\ ~NoFile(k) =>
                  parsed_from[k] = [tag |-> "lines", lines |-> uploader[k].lines]

\* what the script does keep: the stored id is the id of the uploader's file,
\* and the stored result was parsed from a file of that name and size
C29_StoredResultIsOfSameNameAndSize ==
    RunEnded =>
        \A k \in Kinds :
            /\ session_state[k].last_file_id = get_file_id(uploader[k])
            /\ NoFile(k) => session_state[k].data = None /\ parsed_from[k] = None
            /\ ~NoFile(k) =>
                  /\ parsed_from[k] # None
                  /\ FileSize(parsed_from[k].lines) = FileSize(uploader[k].lines)

\* the stock uploader holds the file with item ABD, and the stored table is
\* that of the file with item ABC it replaced
C29_StaleStock ==
    /\ RunEnded
    /\ ~NoFile("stock")
    /\ Len(uploader["stock"].lines) = 2
    /\ uploader["stock"].lines[2][1] = <<"A","B","D">>
    /\ session_state["stock"].data # None
    /\ Len(session_state["stock"].data.df.rows) = 1
    /\ session_state["stock"].data.df.rows[1].v["Codigo"] = <<"A","B","C">>
    /\ view["stock"] = session_state["stock"].data

\* C30: safe_float_parse always returns a finite number: for no argument does
\* it return NaN or an infinity.
C30_CoercionIsFinite ==
    Returned => value_out.k = "fin"

\* the texts float() reads as NaN or an infinity and the sentinel test of
\* safe_float_parse lets through
C30_ReturnsNaN ==
    /\ Returned
    /\ value_in = <<"N","a","N">>
    /\ value_out = NaN

C30_ReturnsInfinity ==
    /\ Returned
    /\ value_in \in {<<"i","n","f">>, <<"I","n","f","i","n","i","t","y">>}
    /\ value_out = PInf

C30_ReturnsMinusInfinity ==
    /\ Returned
    /\ value_in = <<"-","i","n","f">>
    /\ value_out = NInf

\* the lowercase sentinel 'nan' is the one spelling that is caught
C30_LowercaseNanIsZero ==
    (Returned /\ value_in = <<"n","a","n">>) => value_out = Zero

\* a NaN reaches a normalized numeric column of the stock table
C30_NaNInStockColumn ==
    /\ Done
    /\ kind = "stock"
    /\ result.tag = "DataFrame"
    /\ \E j \in 1..Len(result.df.rows) :
          result.df.rows[j].v["CantidadActual"] = NaN

=============================================================================
